---- MODULE Spec2Model ----
(***************************************************************************)
(* Model of the spatial reasoning, movement and narration pipeline of the  *)
(* AI RPG manager: src/services/spatial-service.ts, the movement route     *)
(* (handleApply), src/services/ai-dungeon-master.ts, src/lib/openai.ts and *)
(* src/lib/rate-limit.ts.                                                  *)
(*                                                                         *)
(* Coordinates are integers counted in half metres, so that the positions  *)
(* 13.5 and 4.5 of the documented tavern are representable; Metres(n)      *)
(* converts a length in metres.  Distances are carried as their squares    *)
(* (Math.sqrt is monotone, so every comparison of distances is preserved). *)
(* A stored dimension that is absent (null) is written 0: the code reads   *)
(* dimensions only through `v || default`, which treats null and 0 alike.  *)
(***************************************************************************)
EXTENDS Integers, Sequences, FiniteSets, TLC

VARIABLES
    features,       \* rows of the LocationFeature table
    geo,            \* the spatial query being answered and its result
    positions,      \* CharacterPosition table: character -> row
    sessState,      \* SessionState row of the session
    apply,          \* movement apply requests in flight: request -> frame
    sessionStatus,  \* status column of the Session row
    rateLimit,      \* RateLimit table: session id -> row
    clock,          \* the time, in rate-limit windows
    generated,      \* AI responses obtained since the RateLimit row was last reset
    messages,       \* Message table of the session, in creation order
    started,        \* generateResponse calls made so far
    gen,            \* generateResponse calls in flight: call -> frame
    summaryRows,    \* SessionSummary table of the session, in creation order
    summarize,      \* autoSummarizeIfNeeded runs in flight: run -> frame
    interp,         \* the reply interpretation being returned
    call            \* the call of a text helper being returned (detector,
                    \* context builder)

geomVars == <<features, geo>>

moveVars == <<positions, sessState, apply>>

genVars == <<sessionStatus, rateLimit, clock, generated, messages, started, gen>>

sumVars == <<summaryRows, summarize>>

vars == <<geomVars, moveVars, genVars, sumVars, interp, call>>

-----------------------------------------------------------------------------
(* Bounds of the model *)

MaxCoord == 3        \* grid points have x, y in -1..MaxCoord
MaxZ == 1            \* grid points have z in -1..MaxZ
MaxFeatures == 2     \* rows of the LocationFeature table at one time

-----------------------------------------------------------------------------
(* Units and positions *)

Metres(n) == 2 * n

Abs(n) == IF n < 0 THEN -n ELSE n

Pos(px, py, pz) == [x |-> px, y |-> py, z |-> pz]

Origin == Pos(0, 0, 0)

GridPoints ==
    { Pos(px, py, pz) : px \in -1..MaxCoord, py \in -1..MaxCoord, pz \in -1..MaxZ }

\* Positions of the documented scenarios: the character standing outside the
\* tavern at (13.5, 15, 0), attacker and defender at (0,0,0) and (20,0,0),
\* a spot inside the bar counter, a corner of the tavern and a far corner.
ScenarioPoints ==
    { Pos(Metres(13) + 1, Metres(15), 0),
      Pos(Metres(20), 0, 0),
      Pos(Metres(12), Metres(3), 0),
      Pos(Metres(18), Metres(12), Metres(4) + 1),
      Pos(Metres(18), Metres(12), Metres(5)) }

StartPoints ==
    { Origin, Pos(2, 2, 0), Pos(Metres(60), 0, 0),
      Pos(Metres(13) + 1, Metres(15), 0) }

TargetPoints == GridPoints \cup ScenarioPoints

\* Square of calculateDistance(pos1, pos2)
calculateDistanceSq(pos1, pos2) ==
    LET dx == pos2.x - pos1.x
        dy == pos2.y - pos1.y
        dz == pos2.z - pos1.z
    IN  dx * dx + dy * dy + dz * dz

-----------------------------------------------------------------------------
(* Locations and the features that can be stored in them *)

LocationIds == {"tavern", "cellar"}

MissingLocation == "missing"    \* an id that resolves to no Location row

Location(id) ==
    IF id = "tavern"
    THEN [minX |-> 0, maxX |-> Metres(18), minY |-> 0, maxY |-> Metres(12),
          minZ |-> 0, maxZ |-> Metres(4) + 1]
    ELSE [minX |-> 0, maxX |-> 2, minY |-> 0, maxY |-> 2, minZ |-> 0, maxZ |-> 1]

Feature(n, l, p, w, h, d, bm, bv, c) ==
    [name |-> n, locationId |-> l, x |-> p.x, y |-> p.y, z |-> p.z,
     width |-> w, height |-> h, depth |-> d,
     blocksMovement |-> bm, blocksVision |-> bv, providesCover |-> c]

\* Rows that createFeature may store.  Bar Counter and Boulder are the
\* documented scenarios; Pillar is stored without dimensions.
FeatureCatalog ==
    { Feature("Bar Counter", "tavern", Pos(Metres(10), Metres(2), 0),
              Metres(20), 0, Metres(3), TRUE, FALSE, "HALF"),
      Feature("Boulder", "tavern", Pos(Metres(8), -Metres(2), 0),
              Metres(4), Metres(5), Metres(4), TRUE, TRUE, "FULL"),
      Feature("Pillar", "cellar", Pos(1, 1, 0), 0, 0, 0, TRUE, TRUE, "THREE_QUARTERS"),
      Feature("Crate", "cellar", Pos(1, 0, 0), 1, 1, 1, TRUE, FALSE, "HALF"),
      Feature("Screen", "cellar", Pos(0, 2, 0), 2, 1, 1, FALSE, TRUE, "NONE"),
      Feature("Rug", "cellar", Pos(0, 0, 0), 2, 0, 2, FALSE, FALSE, "NONE") }

-----------------------------------------------------------------------------
(* Geometry kernel: src/services/spatial-service.ts *)

\* `v || d` of the source: an absent (or zero) dimension takes the default
OrDefault(v, d) == IF v = 0 THEN d ELSE v

\* Rationals t = n/d with d > 0, as <<n, d>>.  On this grid every quotient of
\* lineIntersectsAABB is such a rational and its comparisons are exact.
Quot(n, d) == IF d > 0 THEN <<n, d>> ELSE <<-n, -d>>

FLe(a, b) == a[1] * b[2] <= b[1] * a[2]

FMax(a, b) == IF FLe(a, b) THEN b ELSE a

FMin(a, b) == IF FLe(a, b) THEN a ELSE b

\* Math.abs(d) < 0.0001 (metres) for a direction component d in half metres
IsParallel(d) == Abs(d) * 10000 < Metres(1)

\* One axis of lineIntersectsAABB; st = [hit, tmin, tmax], hit = FALSE once
\* the function has returned false.
SlabAxis(st, s, d, lo, hi) ==
    IF ~st.hit THEN st
    ELSE IF IsParallel(d)
         THEN IF s < lo \/ s > hi THEN [st EXCEPT !.hit = FALSE] ELSE st
         ELSE LET t1 == Quot(lo - s, d)
                  t2 == Quot(hi - s, d)
              IN  [st EXCEPT !.tmin = FMax(st.tmin, FMin(t1, t2)),
                             !.tmax = FMin(st.tmax, FMax(t1, t2))]

lineIntersectsAABB(start, end, box) ==
    LET s0 == [hit |-> TRUE, tmin |-> <<0, 1>>, tmax |-> <<1, 1>>]
        sx == SlabAxis(s0, start.x, end.x - start.x, box.minX, box.maxX)
        sy == SlabAxis(sx, start.y, end.y - start.y, box.minY, box.maxY)
        sz == SlabAxis(sy, start.z, end.z - start.z, box.minZ, box.maxZ)
    IN  /\ sz.hit
        /\ FLe(sz.tmin, sz.tmax)
        /\ FLe(sz.tmin, <<1, 1>>)
        /\ FLe(<<0, 1>>, sz.tmax)

\* Extent a dimension takes in lineIntersectsBox when it is absent
DefaultExtent == Metres(5)

\* The box lineIntersectsBox hands to lineIntersectsAABB
SegmentBox(box) ==
    [minX |-> box.x, maxX |-> box.x + OrDefault(box.width, DefaultExtent),
     minY |-> box.y, maxY |-> box.y + OrDefault(box.depth, DefaultExtent),
     minZ |-> box.z, maxZ |-> box.z + OrDefault(box.height, DefaultExtent)]

lineIntersectsBox(start, end, box) ==
    lineIntersectsAABB(start, end, SegmentBox(box))

\* The box positionIntersectsFeature tests a position against
PointBox(feature) ==
    [minX |-> feature.x, maxX |-> feature.x + OrDefault(feature.width, 0),
     minY |-> feature.y, maxY |-> feature.y + OrDefault(feature.depth, 0),
     minZ |-> feature.z, maxZ |-> feature.z + OrDefault(feature.height, 0)]

InBox(p, b) ==
    /\ p.x >= b.minX /\ p.x <= b.maxX
    /\ p.y >= b.minY /\ p.y <= b.maxY
    /\ p.z >= b.minZ /\ p.z <= b.maxZ

\* A point test that leaves the faces of the box out
positionStrictlyInsideFeature(position, feature) ==
    LET b == PointBox(feature)
    IN  /\ position.x > b.minX /\ position.x < b.maxX
        /\ position.y > b.minY /\ position.y < b.maxY
        /\ position.z > b.minZ /\ position.z < b.maxZ

positionIntersectsFeature(position, feature) ==
    InBox(position, PointBox(feature))

-----------------------------------------------------------------------------
(* Spatial queries: src/services/spatial-service.ts *)

\* prisma.locationFeature.findMany({ where: { locationId } })
FeaturesOf(locationId) == { f \in features : f.locationId = locationId }

checkLineOfSight(pos1, pos2, locationId) ==
    LET obstacles == { f \in FeaturesOf(locationId) : f.blocksVision }
    IN  \A obstacle \in obstacles : ~lineIntersectsBox(pos1, pos2, obstacle)

coverLevels == <<"NONE", "HALF", "THREE_QUARTERS", "FULL">>

\* coverLevels.indexOf(c), counted from 1
CoverIndex(c) == CHOOSE i \in 1..Len(coverLevels) : coverLevels[i] = c

\* Pairs <<lower, higher>> of cover levels, equal levels included
CoverOrder ==
    { p \in { coverLevels[i] : i \in 1..Len(coverLevels) } \X
             { coverLevels[i] : i \in 1..Len(coverLevels) } :
          CoverIndex(p[1]) <= CoverIndex(p[2]) }

\* A loop that keeps the lowest level met on the line
lowestCover(candidates, attackerPos, defenderPos) ==
    LET hit == { f \in candidates : lineIntersectsBox(attackerPos, defenderPos, f) }
    IN  IF hit = {} THEN "NONE"
        ELSE LET worst == CHOOSE f \in hit :
                            \A g \in hit : CoverIndex(f.providesCover) <= CoverIndex(g.providesCover)
             IN  worst.providesCover

\* The loop of getCoverLevel over the rows found: bestCover ends as the
\* highest level among the rows the line meets
bestCover(candidates, attackerPos, defenderPos) ==
    LET hit == { f \in candidates : lineIntersectsBox(attackerPos, defenderPos, f) }
    IN  IF hit = {} THEN "NONE"
        ELSE LET best == CHOOSE f \in hit :
                            \A g \in hit : CoverIndex(g.providesCover) <= CoverIndex(f.providesCover)
             IN  best.providesCover

\* findMany({ where: { locationId, providesCover: { not: 'NONE' } } })
CoverFeatures(rows, locationId) ==
    { f \in rows : f.locationId = locationId /\ f.providesCover # "NONE" }

getCoverLevel(attackerPos, defenderPos, locationId) ==
    bestCover(CoverFeatures(features, locationId), attackerPos, defenderPos)

\* A bounds check that forgets the y axis
OutsideBoundsNoY(to, location) ==
    \/ to.x < location.minX \/ to.x > location.maxX
    \/ to.z < location.minZ \/ to.z > location.maxZ

\* The bounds check of validateMovement
OutsideBounds(to, location) ==
    \/ to.x < location.minX \/ to.x > location.maxX
    \/ to.y < location.minY \/ to.y > location.maxY
    \/ to.z < location.minZ \/ to.z > location.maxZ

\* Threshold (metres) above which validateMovement warns about the distance
maxReasonableDistance == Metres(50)

validateMovement(from, to, locationId) ==
    IF locationId \notin LocationIds
    THEN [isValid |-> FALSE, blockedBy |-> {}, warnings |-> <<"Location not found">>]
    ELSE
    LET location == Location(locationId)
        blocking == { f \in FeaturesOf(locationId) : f.blocksMovement }
        blockedBy == { f.name : f \in { g \in blocking : positionIntersectsFeature(to, g) } }
    IN  IF OutsideBounds(to, location)
        THEN [isValid |-> FALSE, blockedBy |-> {},
              warnings |-> <<"Target position is outside location bounds">>]
        ELSE IF blockedBy # {}
        THEN [isValid |-> FALSE, blockedBy |-> blockedBy,
              warnings |-> <<"Path blocked by">>]
        ELSE IF calculateDistanceSq(from, to) > maxReasonableDistance * maxReasonableDistance
        THEN [isValid |-> TRUE, blockedBy |-> {},
              warnings |-> <<"Movement distance seems unusually large">>]
        ELSE [isValid |-> TRUE, blockedBy |-> {}, warnings |-> <<>>]

validateMovementPath(from, to, locationId) ==
    LET blocking == { f \in FeaturesOf(locationId) : f.blocksMovement }
        blockedBy == { f.name : f \in { g \in blocking : lineIntersectsBox(from, to, g) } }
    IN  [isValid |-> blockedBy = {}, blockedBy |-> blockedBy]

-----------------------------------------------------------------------------
(* Initial values of the tables *)

Idle == [op |-> "idle"]

NoRow == [exists |-> FALSE]

NoReply == [op |-> "none"]

NoCall == [op |-> "none"]

\* The tables a specification does not exercise: no position, no session
\* state, no request in flight
MoveAtRest ==
    /\ positions = [c \in {} |-> NoRow]
    /\ sessState = NoRow
    /\ apply = [r \in {} |-> Idle]

SumAtRest ==
    /\ summaryRows = <<>>
    /\ summarize = [b \in {} |-> Idle]

GenAtRest ==
    /\ sessionStatus = "ACTIVE"
    /\ rateLimit = [sid \in {} |-> NoRow]
    /\ clock = 0
    /\ generated = 0
    /\ messages = <<>>
    /\ started = 0
    /\ gen = [g \in {} |-> Idle]

-----------------------------------------------------------------------------
(* SpecGeom: features are created and deleted (location-service.ts) and the  *)
(* spatial queries are answered from the rows stored at that moment.         *)

createFeature(f) ==
    /\ geo = Idle
    /\ f \notin features
    /\ Cardinality(features) < MaxFeatures
    /\ features' = features \cup {f}
    /\ UNCHANGED <<sumVars, geo, moveVars, genVars, interp, call>>

deleteFeature(f) ==
    /\ geo = Idle
    /\ f \in features
    /\ features' = features \ {f}
    /\ UNCHANGED <<sumVars, geo, moveVars, genVars, interp, call>>

QueryValidateMovement(from, to, loc) ==
    /\ geo = Idle
    /\ geo' = [op |-> "validateMovement", a |-> from, b |-> to, loc |-> loc,
               res |-> validateMovement(from, to, loc)]
    /\ UNCHANGED <<sumVars, features, moveVars, genVars, interp, call>>

QueryLineOfSight(pos1, pos2, loc) ==
    /\ geo = Idle
    /\ geo' = [op |-> "checkLineOfSight", a |-> pos1, b |-> pos2, loc |-> loc,
               res |-> checkLineOfSight(pos1, pos2, loc)]
    /\ UNCHANGED <<sumVars, features, moveVars, genVars, interp, call>>

QueryCoverLevel(attackerPos, defenderPos, loc) ==
    /\ geo = Idle
    /\ geo' = [op |-> "getCoverLevel", a |-> attackerPos, b |-> defenderPos, loc |-> loc,
               res |-> getCoverLevel(attackerPos, defenderPos, loc)]
    /\ UNCHANGED <<sumVars, features, moveVars, genVars, interp, call>>

QueryMovementPath(from, to, loc) ==
    /\ geo = Idle
    /\ geo' = [op |-> "validateMovementPath", a |-> from, b |-> to, loc |-> loc,
               res |-> validateMovementPath(from, to, loc)]
    /\ UNCHANGED <<sumVars, features, moveVars, genVars, interp, call>>

\* The answer has been handed to the caller
QueryReturn ==
    /\ geo # Idle
    /\ geo' = Idle
    /\ UNCHANGED <<sumVars, features, moveVars, genVars, interp, call>>

InitGeom ==
    /\ SumAtRest
    /\ features = {}
    /\ geo = Idle
    /\ MoveAtRest
    /\ GenAtRest
    /\ interp = NoReply
    /\ call = NoCall

NextGeom ==
    \/ \E f \in FeatureCatalog : createFeature(f)
    \/ \E f \in FeatureCatalog : deleteFeature(f)
    \/ \E from \in StartPoints, to \in TargetPoints, loc \in LocationIds \cup {MissingLocation} :
          QueryValidateMovement(from, to, loc)
    \/ \E a \in StartPoints, b \in TargetPoints, loc \in LocationIds :
          QueryLineOfSight(a, b, loc)
    \/ \E a \in StartPoints, b \in TargetPoints, loc \in LocationIds :
          QueryCoverLevel(a, b, loc)
    \/ \E a \in StartPoints, b \in TargetPoints, loc \in LocationIds :
          QueryMovementPath(a, b, loc)
    \/ QueryReturn

SpecGeom == InitGeom /\ [][NextGeom]_vars

-----------------------------------------------------------------------------
(* SpecMove: the movement route, POST /api/sessions/[id]/movement?action=apply *)
(* Each await of handleApply is a step, so two requests interleave.  The      *)
(* facing column and the timestamp of the event carry no decision and are     *)
(* left out.                                                                  *)

SessionId == "s1"              \* the stored session

UnknownSession == "nosuch"     \* an id that resolves to no Session row

CharacterIds == {"hero", "orc"}

UnknownCharacter == "ghost"    \* a character without a CharacterPosition row

ReqIds == {"r1", "r2"}

\* Targets of the apply requests: free floor, the pillar's anchor (blocked),
\* a free corner, and a point outside the cellar.
ApplyTargets == { Pos(0, 2, 0), Pos(1, 1, 0), Pos(2, 2, 1), Pos(3, 0, 0) }

NoValidation == [isValid |-> FALSE, blockedBy |-> {}, warnings |-> <<"not validated">>]

ApplyIdle ==
    [pc |-> "idle", sessionId |-> "", characterId |-> "", target |-> Origin,
     stateLocationId |-> "", existingEvents |-> <<>>, currentPosition |-> Origin,
     validation |-> NoValidation, response |-> ""]

PositionRow(l, p) == [exists |-> TRUE, locationId |-> l, x |-> p.x, y |-> p.y, z |-> p.z]

PosOf(row) == Pos(row.x, row.y, row.z)

StateRow(l, ev) == [exists |-> TRUE, locationId |-> l, recentEvents |-> ev]

\* [event, ...existingEvents].slice(0, 5)
KeepLast5(event, existingEvents) ==
    SubSeq(<<event>> \o existingEvents, 1,
           IF Len(existingEvents) + 1 < 5 THEN Len(existingEvents) + 1 ELSE 5)

\* A plain string among the recent events, as a sequence of characters
InputEvent(text) == [type |-> "input", text |-> text]

\* The input stored at its full length
Untruncated(userInput) == userInput

\* userInput.substring(0, 100)
Truncated(userInput) ==
    SubSeq(userInput, 1, IF Len(userInput) < 100 THEN Len(userInput) ELSE 100)

\* JSON.stringify(movementEvent)
MovementEvent(c, from, to) ==
    [type |-> "movement", characterId |-> c, from |-> from, to |-> to]

\* A check of the validation that lets every movement through
ValidationIgnored(validation) == TRUE

\* `if (!validation.isValid) return 400` of handleApply
ValidationPassed(validation) == validation.isValid

\* MovementApplySchema.parse and prisma.session.findUnique({ include: state })
ApplyFindSession(r, sid, c, to) ==
    /\ apply[r].pc = "idle"
    /\ apply' = [apply EXCEPT ![r] =
          IF sid # SessionId
          THEN [@ EXCEPT !.pc = "done", !.sessionId = sid, !.characterId = c, !.target = to,
                         !.response = "Session not found"]
          ELSE IF ~sessState.exists \/ sessState.locationId = ""
          THEN [@ EXCEPT !.pc = "done", !.sessionId = sid, !.characterId = c, !.target = to,
                         !.response = "Session has no active location"]
          ELSE [@ EXCEPT !.pc = "findPosition", !.sessionId = sid, !.characterId = c,
                         !.target = to,
                         !.stateLocationId = sessState.locationId,
                         !.existingEvents = sessState.recentEvents]]
    /\ UNCHANGED <<sumVars, geomVars, positions, sessState, genVars, interp, call>>

\* prisma.characterPosition.findUnique({ where: { characterId } })
ApplyFindPosition(r) ==
    /\ apply[r].pc = "findPosition"
    /\ apply' = [apply EXCEPT ![r] =
          IF apply[r].characterId \notin DOMAIN positions
             \/ ~positions[apply[r].characterId].exists
          THEN [@ EXCEPT !.pc = "done", !.response = "Character position not found"]
          ELSE [@ EXCEPT !.pc = "validate",
                         !.currentPosition = PosOf(positions[apply[r].characterId])]]
    /\ UNCHANGED <<sumVars, geomVars, positions, sessState, genVars, interp, call>>

\* spatialService.validateMovement(currentPosition, targetPosition, locationId)
ApplyValidate(r) ==
    /\ apply[r].pc = "validate"
    /\ LET validation == validateMovement(apply[r].currentPosition, apply[r].target,
                                          apply[r].stateLocationId)
       IN  apply' = [apply EXCEPT ![r] =
              IF ~ValidationPassed(validation)
              THEN [@ EXCEPT !.pc = "done", !.validation = validation,
                             !.response = "Invalid movement"]
              ELSE [@ EXCEPT !.pc = "updatePosition", !.validation = validation]]
    /\ UNCHANGED <<sumVars, geomVars, positions, sessState, genVars, interp, call>>

\* An update that writes the x column only
MovedAlongX(row, target) == [row EXCEPT !.x = target.x]

\* data: { x, y, z } of the update: the three columns are written together
MovedTo(row, target) ==
    [row EXCEPT !.x = target.x, !.y = target.y, !.z = target.z]

\* prisma.characterPosition.update({ where: { characterId }, data: target })
ApplyUpdatePosition(r) ==
    /\ apply[r].pc = "updatePosition"
    /\ positions' = [positions EXCEPT ![apply[r].characterId] =
                        MovedTo(@, apply[r].target)]
    /\ apply' = [apply EXCEPT ![r].pc = "updateEvents"]
    /\ UNCHANGED <<sumVars, geomVars, sessState, genVars, interp, call>>

\* prisma.sessionState.update({ data: { recentEvents: newEvents } }), built
\* from the events read with the session at the start of the request
ApplyUpdateEvents(r) ==
    /\ apply[r].pc = "updateEvents"
    /\ sessState' = [sessState EXCEPT !.recentEvents =
                        KeepLast5(MovementEvent(apply[r].characterId,
                                                apply[r].currentPosition,
                                                apply[r].target),
                                  apply[r].existingEvents)]
    /\ apply' = [apply EXCEPT ![r].pc = "done",
                              ![r].response = "Movement applied successfully"]
    /\ UNCHANGED <<sumVars, geomVars, positions, genVars, interp, call>>

\* Session states a movement request can find
InitialStates ==
    { NoRow,
      StateRow("", <<>>),
      StateRow("cellar", <<>>),
      StateRow("tavern", <<>>),
      StateRow("cellar", <<InputEvent(<<"e", "1">>), InputEvent(<<"e", "2">>),
                           InputEvent(<<"e", "3">>), InputEvent(<<"e", "4">>)>>) }

InitMove ==
    /\ SumAtRest
    /\ features = { f \in FeatureCatalog : f.name \in {"Pillar", "Crate"} }
    /\ geo = Idle
    /\ positions = [c \in CharacterIds |->
                        IF c = "hero" THEN PositionRow("cellar", Origin)
                        ELSE PositionRow("tavern", Pos(2, 2, 0))]
    /\ sessState \in InitialStates
    /\ apply = [r \in ReqIds |-> ApplyIdle]
    /\ GenAtRest
    /\ interp = NoReply
    /\ call = NoCall

NextMove ==
    \/ \E r \in ReqIds, sid \in {SessionId, UnknownSession},
          c \in CharacterIds \cup {UnknownCharacter}, to \in ApplyTargets :
          ApplyFindSession(r, sid, c, to)
    \/ \E r \in ReqIds : ApplyFindPosition(r)
    \/ \E r \in ReqIds : ApplyValidate(r)
    \/ \E r \in ReqIds : ApplyUpdatePosition(r)
    \/ \E r \in ReqIds : ApplyUpdateEvents(r)

SpecMove == InitMove /\ [][NextMove]_vars

-----------------------------------------------------------------------------
(* Reply interpreter: OpenAIService.generateEnhancedStoryResponse            *)
(* A reply is the text of the completion together with the value JSON.parse  *)
(* gives for that text (kind "invalid" when JSON.parse throws).  JavaScript  *)
(* values are records tagged by kind, undefined included.                    *)

Undef == [kind |-> "undefined"]

JNull == [kind |-> "null"]

Text(str) == [kind |-> "string", value |-> str]

JPosition(p) == [kind |-> "object", x |-> p.x, y |-> p.y, z |-> p.z]

JMovement(detected, targetPosition) ==
    [kind |-> "object", detected |-> detected, targetPosition |-> targetPosition]

JObject(narrative, movement) ==
    [kind |-> "object", narrative |-> narrative, movement |-> movement]

\* Values of the `movement` member: absent, null, or an object whose
\* `detected` is absent, true or false and whose targetPosition is absent or
\* a position.
ReplyTargets == { Pos(1, 1, 0), Pos(0, 2, 0), Pos(3, 0, 0) }

Movements ==
    {Undef, JNull} \cup
    { JMovement(d, t) : d \in {"absent", "true", "false"},
                        t \in {Undef} \cup { JPosition(p) : p \in ReplyTargets } }

ObjectReplies ==
    { [raw |-> "{...}", json |-> JObject(n, m)] :
          n \in {Undef, Text("You walk over.")}, m \in Movements }

Replies ==
    { [raw |-> "Not JSON at all", json |-> [kind |-> "invalid"]],
      [raw |-> "", json |-> [kind |-> "invalid"]],
      [raw |-> "null", json |-> JNull],
      [raw |-> "42", json |-> [kind |-> "number"]] } \cup ObjectReplies

\* The parts of the EnhancedAIContext the interpreter reads
Contexts ==
    { [currentState |-> cs, spatialContext |-> sc] :
          cs \in {Undef} \cup { [kind |-> "object", locationId |-> l] : l \in {"", "cellar"} },
          sc \in {Undef} \cup { [kind |-> "object", characterPosition |-> p] :
                                    p \in {Origin, Pos(2, 2, 0)} } }

\* try { JSON.parse(content) } catch { parsedResponse = { narrative: content } }
ParseReply(content) ==
    IF content.json.kind = "invalid"
    THEN JObject(Text(content.raw), Undef)
    ELSE content.json

\* v.name for a value v that is not null: a member of an object, undefined
\* for a number
MovementOf(parsed) == IF parsed.kind = "object" THEN parsed.movement ELSE Undef

NarrativeOf(parsed) == IF parsed.kind = "object" THEN parsed.narrative ELSE Undef

\* parsedResponse.movement?.detected && parsedResponse.movement.targetPosition
MovementDetected(parsed) ==
    LET mov == MovementOf(parsed)
    IN  /\ mov.kind = "object"
        /\ mov.detected = "true"
        /\ mov.targetPosition.kind = "object"

NoSuggestion == [present |-> FALSE]

\* A suggestion that always starts at the origin
SuggestionFromOrigin(context) == Origin

\* context.spatialContext?.characterPosition || { x: 0, y: 0, z: 0 }
SuggestionFrom(context) ==
    IF context.spatialContext.kind = "object"
    THEN context.spatialContext.characterPosition
    ELSE Origin

\* context.currentState?.locationId || ''
SuggestionLocation(context) ==
    IF context.currentState.kind = "object" THEN context.currentState.locationId ELSE ""

BuildSuggestion(parsed, context) ==
    LET to == parsed.movement.targetPosition
        target == Pos(to.x, to.y, to.z)
    IN  [present |-> TRUE,
         characterId |-> IF context.spatialContext.kind = "object" THEN "player" ELSE "",
         from |-> SuggestionFrom(context),
         to |-> target,
         distanceSq |-> calculateDistanceSq(SuggestionFrom(context), target),
         locationId |-> SuggestionLocation(context),
         isValid |-> TRUE,
         validationIssues |-> <<>>]

\* What follows the completion inside the try block: the reply is parsed, the
\* suggestion built and the AIResponse returned; a TypeError raised on the
\* way is caught by the outer catch and rethrown as
\* 'Failed to generate AI response'.
InterpretReply(content, context) ==
    LET parsed == ParseReply(content)
    IN  IF parsed.kind = "null"
        THEN [threw |-> TRUE, error |-> "Failed to generate AI response",
              content |-> Undef, movementSuggestion |-> NoSuggestion]
        ELSE [threw |-> FALSE, error |-> "",
              content |-> NarrativeOf(parsed),
              movementSuggestion |->
                  IF MovementDetected(parsed)
                  THEN BuildSuggestion(parsed, context)
                  ELSE NoSuggestion]

-----------------------------------------------------------------------------
(* SpecInterp: the interpreter applied to every reply and context *)

Interpret(content, context) ==
    /\ interp = NoReply
    /\ interp' = [op |-> "interpret", reply |-> content, context |-> context,
                  res |-> InterpretReply(content, context)]
    /\ UNCHANGED <<sumVars, geomVars, moveVars, genVars, call>>

InterpretReturn ==
    /\ interp # NoReply
    /\ interp' = NoReply
    /\ UNCHANGED <<sumVars, geomVars, moveVars, genVars, call>>

InitInterp ==
    /\ SumAtRest
    /\ features = {}
    /\ geo = Idle
    /\ MoveAtRest
    /\ GenAtRest
    /\ interp = NoReply
    /\ call = NoCall

NextInterp ==
    \/ \E content \in Replies, context \in Contexts : Interpret(content, context)
    \/ InterpretReturn

SpecInterp == InitInterp /\ [][NextInterp]_vars

-----------------------------------------------------------------------------
(* SpecGen: AIDungeonMasterService.generateResponse with the rate limiter.    *)
(* Each await of generateResponse and of checkRateLimit is a step, so two     *)
(* calls for the same session interleave.  The cost-budget check only logs    *)
(* and is left out; the background summarisation is not part of the call.     *)

MaxCalls == 3        \* generateResponse calls made in one behaviour
MaxClock == 2        \* the clock runs over 0..MaxClock

\* parseInt(process.env.MAX_REQUESTS_PER_SESSION || '20'), configured to 2
MAX_REQUESTS_PER_SESSION == 2

\* parseInt(process.env.MAX_TOKENS_PER_SESSION || '10000'), configured to 5
MAX_TOKENS_PER_SESSION == 5

\* parseInt(process.env.RATE_LIMIT_WINDOW_MS || '3600000'), configured to 1
RATE_LIMIT_WINDOW_MS == 1

GenIds == {"g1", "g2"}

\* "I walk to the pillar"
UserInput ==
    <<"I", " ", "w", "a", "l", "k", " ", "t", "o", " ", "t", "h", "e", " ",
      "p", "i", "l", "l", "a", "r">>

FirstCharacter == "hero"       \* characters: { take: 1, orderBy: createdAt asc }

\* Completions the language model may return, with usage.total_tokens
GenReplies ==
    { [raw |-> "null", json |-> JNull, tokens |-> 2],
      [raw |-> "{...}", tokens |-> 2,
       json |-> JObject(Text("You walk over."), Undef)],
      [raw |-> "{...}", tokens |-> 2,
       json |-> JObject(Text("You walk over."),
                        JMovement("true", JPosition(Pos(1, 1, 0))))],
      [raw |-> "{...}", tokens |-> 2,
       json |-> JObject(Text("You walk over."),
                        JMovement("true", JPosition(Pos(0, 2, 0))))] }

RateRow(requests, tokens, start) ==
    [exists |-> TRUE, requestCount |-> requests, tokenCount |-> tokens,
     windowStart |-> start]

\* !rateLimit || rateLimit.windowStart < windowStart
WindowExpired(row, now) ==
    \/ ~row.exists
    \/ row.windowStart < now - RATE_LIMIT_WINDOW_MS

Allowed(row) ==
    /\ row.requestCount < MAX_REQUESTS_PER_SESSION
    /\ row.tokenCount < MAX_TOKENS_PER_SESSION

NoContext == [currentState |-> Undef, spatialContext |-> Undef]

NoResponse == [content |-> Undef, tokenCount |-> 0, movementSuggestion |-> NoSuggestion]

GenIdle ==
    [pc |-> "idle", sessionId |-> "", userInput |-> <<>>, now |-> 0,
     rateLimit |-> NoRow, context |-> NoContext, aiResponse |-> NoResponse,
     existingEvents |-> <<>>, error |-> ""]

\* buildStateContext: undefined without a state row
buildStateContext(state) ==
    IF state.exists
    THEN [kind |-> "object", locationId |-> state.locationId]
    ELSE Undef

\* ContextBuilderService.buildSpatialContext: the position of the first
\* character of the campaign, undefined when it has no row or no location
buildSpatialContext(positionRows) ==
    IF /\ FirstCharacter \in DOMAIN positionRows
       /\ positionRows[FirstCharacter].exists
       /\ positionRows[FirstCharacter].locationId # ""
    THEN [kind |-> "object", characterPosition |-> PosOf(positionRows[FirstCharacter])]
    ELSE Undef

buildContext(state, positionRows) ==
    [currentState |-> buildStateContext(state),
     spatialContext |-> buildSpatialContext(positionRows)]

\* The validation the suggestion is given
SuggestionValidation(suggestion) ==
    validateMovement(suggestion.from, suggestion.to, suggestion.locationId)

\* A suggestion that keeps what the interpreter wrote
KeepProvisional(suggestion, validation) == suggestion

\* suggestion.isValid = validation.isValid; validationIssues = warnings,
\* followed by the blockers when there are any
WithValidation(suggestion, validation) ==
    [suggestion EXCEPT
        !.isValid = validation.isValid,
        !.validationIssues =
            IF validation.blockedBy # {}
            THEN Append(validation.warnings, "Blocked by")
            ELSE validation.warnings]

\* A throw that lets the call go on to its message writes
FailAndStore(frame, message) ==
    [frame EXCEPT !.pc = "saveUser", !.error = message]

\* The call throws: its locals are gone, the caller has the error
Fail(frame, message) ==
    [GenIdle EXCEPT !.pc = "done", !.sessionId = frame.sessionId,
                    !.userInput = frame.userInput, !.error = message]

\* checkRateLimit returns; generateResponse throws unless `allowed`
AfterRateLimit(frame, row) ==
    IF Allowed(row)
    THEN [frame EXCEPT !.pc = "findSession", !.now = 0, !.rateLimit = NoRow]
    ELSE Fail(frame, "Rate limit exceeded")

\* checkRateLimit, prisma.rateLimit.findUnique
GenCheckRateLimit(g, sid) ==
    /\ gen[g].pc = "idle"
    /\ started < MaxCalls
    /\ started' = started + 1
    /\ LET row == rateLimit[sid]
           frame == [gen[g] EXCEPT !.sessionId = sid, !.userInput = UserInput,
                                   !.now = clock, !.rateLimit = row]
       IN  gen' = [gen EXCEPT ![g] =
                      IF WindowExpired(row, clock)
                      THEN [frame EXCEPT !.pc = "resetWindow"]
                      ELSE AfterRateLimit(frame, row)]
    /\ UNCHANGED <<sumVars, geomVars, moveVars, sessionStatus, rateLimit, clock, generated,
                   messages, interp, call>>

\* checkRateLimit, prisma.rateLimit.upsert: the counters start again at `now`
GenResetWindow(g) ==
    /\ gen[g].pc = "resetWindow"
    /\ LET row == RateRow(0, 0, gen[g].now)
       IN  /\ rateLimit' = [rateLimit EXCEPT ![gen[g].sessionId] = row]
           /\ gen' = [gen EXCEPT ![g] =
                          AfterRateLimit([gen[g] EXCEPT !.rateLimit = row], row)]
    /\ generated' = IF gen[g].sessionId = SessionId THEN 0 ELSE generated
    /\ UNCHANGED <<sumVars, geomVars, moveVars, sessionStatus, clock, messages, started, interp, call>>

\* prisma.session.findUnique and the two status errors
GenFindSession(g) ==
    /\ gen[g].pc = "findSession"
    /\ gen' = [gen EXCEPT ![g] =
                  IF gen[g].sessionId # SessionId
                  THEN Fail(gen[g], "Session not found")
                  ELSE IF sessionStatus # "ACTIVE"
                  THEN Fail(gen[g], "Session is not active")
                  ELSE [gen[g] EXCEPT !.pc = "buildContext"]]
    /\ UNCHANGED <<sumVars, geomVars, moveVars, sessionStatus, rateLimit, clock, generated,
                   messages, started, interp, call>>

\* contextBuilderService.buildContext
GenBuildContext(g) ==
    /\ gen[g].pc = "buildContext"
    /\ gen' = [gen EXCEPT ![g] =
                  [gen[g] EXCEPT !.pc = "callModel",
                                 !.context = buildContext(sessState, positions)]]
    /\ UNCHANGED <<sumVars, geomVars, moveVars, sessionStatus, rateLimit, clock, generated,
                   messages, started, interp, call>>

\* generateEnhancedStoryResponse: the completion arrives and is interpreted
GenCallModel(g, reply) ==
    /\ gen[g].pc = "callModel"
    /\ LET res == InterpretReply(reply, gen[g].context)
       IN  IF res.threw
           THEN /\ gen' = [gen EXCEPT ![g] = Fail(gen[g], res.error)]
                /\ UNCHANGED generated
           ELSE /\ gen' = [gen EXCEPT ![g] =
                              [gen[g] EXCEPT
                                  !.pc = IF res.movementSuggestion.present
                                         THEN "validate" ELSE "saveUser",
                                  !.context = NoContext,
                                  !.aiResponse =
                                      [content |-> res.content,
                                       tokenCount |-> reply.tokens,
                                       movementSuggestion |-> res.movementSuggestion]]]
                /\ generated' = generated + 1
    /\ UNCHANGED <<sumVars, geomVars, moveVars, sessionStatus, rateLimit, clock, messages,
                   started, interp, call>>

\* generateEnhancedStoryResponse: openai.chat.completions.create rejects
GenModelFails(g) ==
    /\ gen[g].pc = "callModel"
    /\ gen' = [gen EXCEPT ![g] = Fail(gen[g], "Failed to generate AI response")]
    /\ UNCHANGED <<sumVars, geomVars, moveVars, sessionStatus, rateLimit, clock, generated,
                   messages, started, interp, call>>

\* spatialService.validateMovement on the suggestion
GenValidate(g) ==
    /\ gen[g].pc = "validate"
    /\ LET suggestion == gen[g].aiResponse.movementSuggestion
           validation == SuggestionValidation(suggestion)
       IN  gen' = [gen EXCEPT ![g] =
                      [gen[g] EXCEPT
                          !.pc = "saveUser",
                          !.aiResponse.movementSuggestion =
                              WithValidation(suggestion, validation)]]
    /\ UNCHANGED <<sumVars, geomVars, moveVars, sessionStatus, rateLimit, clock, generated,
                   messages, started, interp, call>>

\* prisma.message.create, role USER
GenSaveUser(g) ==
    /\ gen[g].pc = "saveUser"
    /\ messages' = Append(messages, [role |-> "USER", content |-> Text(gen[g].userInput),
                                     tokenCount |-> 0])
    /\ gen' = [gen EXCEPT ![g].pc = "saveAssistant"]
    /\ UNCHANGED <<sumVars, geomVars, moveVars, sessionStatus, rateLimit, clock, generated,
                   started, interp, call>>

\* prisma.message.create, role ASSISTANT
GenSaveAssistant(g) ==
    /\ gen[g].pc = "saveAssistant"
    /\ messages' = Append(messages, [role |-> "ASSISTANT",
                                     content |-> gen[g].aiResponse.content,
                                     tokenCount |-> gen[g].aiResponse.tokenCount])
    /\ gen' = [gen EXCEPT ![g].pc = "increment"]
    /\ UNCHANGED <<sumVars, geomVars, moveVars, sessionStatus, rateLimit, clock, generated,
                   started, interp, call>>

\* incrementRateLimit
GenIncrementRateLimit(g) ==
    /\ gen[g].pc = "increment"
    /\ LET row == rateLimit[gen[g].sessionId]
       IN  rateLimit' = [rateLimit EXCEPT ![gen[g].sessionId] =
                            [row EXCEPT
                                !.requestCount = row.requestCount + 1,
                                !.tokenCount = row.tokenCount + gen[g].aiResponse.tokenCount]]
    /\ gen' = [gen EXCEPT ![g].pc = "readState"]
    /\ UNCHANGED <<sumVars, geomVars, moveVars, sessionStatus, clock, generated, messages,
                   started, interp, call>>

\* updateStateFromResponse, prisma.session.findUnique with the state
GenReadState(g) ==
    /\ gen[g].pc = "readState"
    /\ gen' = [gen EXCEPT ![g] =
                  [gen[g] EXCEPT
                      !.pc = "upsertState",
                      !.existingEvents =
                          IF sessState.exists THEN sessState.recentEvents ELSE <<>>]]
    /\ UNCHANGED <<sumVars, geomVars, moveVars, sessionStatus, rateLimit, clock, generated,
                   messages, started, interp, call>>

\* updateStateFromResponse, prisma.sessionState.upsert; the response is
\* returned to the caller
GenUpsertState(g) ==
    /\ gen[g].pc = "upsertState"
    /\ LET newEvent == InputEvent(Truncated(gen[g].userInput))
           recentEvents == KeepLast5(newEvent, gen[g].existingEvents)
       IN  sessState' = IF sessState.exists
                        THEN [sessState EXCEPT !.recentEvents = recentEvents]
                        ELSE StateRow("", recentEvents)
    /\ gen' = [gen EXCEPT ![g] = [gen[g] EXCEPT !.pc = "done", !.existingEvents = <<>>]]
    /\ UNCHANGED <<sumVars, geomVars, positions, apply, sessionStatus, rateLimit, clock,
                   generated, messages, started, interp, call>>

\* The caller has the response or the error; the frame is free again
GenReturn(g) ==
    /\ gen[g].pc = "done"
    /\ gen' = [gen EXCEPT ![g] = GenIdle]
    /\ UNCHANGED <<sumVars, geomVars, moveVars, sessionStatus, rateLimit, clock, generated,
                   messages, started, interp, call>>

\* Time passes
Tick ==
    /\ clock < MaxClock
    /\ clock' = clock + 1
    /\ UNCHANGED <<sumVars, geomVars, moveVars, sessionStatus, rateLimit, generated,
                   messages, started, gen, interp, call>>

InitGen ==
    /\ SumAtRest
    /\ features = { f \in FeatureCatalog : f.name \in {"Pillar", "Crate"} }
    /\ geo = Idle
    /\ positions = [c \in CharacterIds |->
                        IF c = "hero" THEN PositionRow("cellar", Origin)
                        ELSE PositionRow("tavern", Pos(2, 2, 0))]
    /\ sessState \in { NoRow, StateRow("", <<>>), StateRow("cellar", <<>>) }
    /\ apply = [r \in {} |-> Idle]
    /\ sessionStatus \in {"ACTIVE", "PAUSED"}
    /\ rateLimit = [sid \in {SessionId, UnknownSession} |-> NoRow]
    /\ clock = 0
    /\ generated = 0
    /\ messages = <<>>
    /\ started = 0
    /\ gen = [g \in GenIds |-> GenIdle]
    /\ interp = NoReply
    /\ call = NoCall

NextGen ==
    \/ \E g \in GenIds, sid \in {SessionId, UnknownSession} : GenCheckRateLimit(g, sid)
    \/ \E g \in GenIds : GenResetWindow(g)
    \/ \E g \in GenIds : GenFindSession(g)
    \/ \E g \in GenIds : GenBuildContext(g)
    \/ \E g \in GenIds, reply \in GenReplies : GenCallModel(g, reply)
    \/ \E g \in GenIds : GenModelFails(g)
    \/ \E g \in GenIds : GenValidate(g)
    \/ \E g \in GenIds : GenSaveUser(g)
    \/ \E g \in GenIds : GenSaveAssistant(g)
    \/ \E g \in GenIds : GenIncrementRateLimit(g)
    \/ \E g \in GenIds : GenReadState(g)
    \/ \E g \in GenIds : GenUpsertState(g)
    \/ \E g \in GenIds : GenReturn(g)
    \/ Tick

SpecGen == InitGen /\ [][NextGen]_vars

-----------------------------------------------------------------------------
(* SpecSession: generateResponse calls while the session is paused and       *)
(* resumed through PATCH /api/sessions/[id].                                 *)

\* sessionService.updateSession(id, { status })
updateSession(status) ==
    /\ sessionStatus # status
    /\ sessionStatus' = status
    /\ UNCHANGED <<sumVars, geomVars, moveVars, rateLimit, clock, generated, messages,
                   started, gen, interp, call>>

InitSession ==
    /\ SumAtRest
    /\ features = { f \in FeatureCatalog : f.name \in {"Pillar", "Crate"} }
    /\ geo = Idle
    /\ positions = [c \in CharacterIds |->
                        IF c = "hero" THEN PositionRow("cellar", Origin)
                        ELSE PositionRow("tavern", Pos(2, 2, 0))]
    /\ sessState = NoRow
    /\ apply = [r \in {} |-> Idle]
    /\ sessionStatus = "ACTIVE"
    /\ rateLimit = [sid \in {SessionId, UnknownSession} |-> NoRow]
    /\ clock = 0
    /\ generated = 0
    /\ messages = <<>>
    /\ started = 0
    /\ gen = [g \in GenIds |-> GenIdle]
    /\ interp = NoReply
    /\ call = NoCall

NextSession ==
    \/ NextGen
    \/ \E status \in {"ACTIVE", "PAUSED"} : updateSession(status)

SpecSession == InitSession /\ [][NextSession]_vars

-----------------------------------------------------------------------------
(* SpecEvents: updateStateFromResponse (part_011, lines 637-697) and the      *)
(* movement route write the recentEvents of the same session.  Each reads    *)
(* the session with its state, awaits, and writes the list back.             *)

MaxUpdates == 2      \* updateStateFromResponse calls made in one behaviour

\* The frame that runs updateStateFromResponse
Updater == "g1"

\* An input of 101 characters
LongInput == [i \in 1..(100 + 1) |-> IF i > 100 THEN "!" ELSE "a"]

\* contextBuilderService.updateStateFromResponse(sessionId, userInput, ...)
\* is called for the stored session
UpdateStateStart(g, userInput) ==
    /\ gen[g].pc = "idle"
    /\ started < MaxUpdates
    /\ started' = started + 1
    /\ gen' = [gen EXCEPT ![g] =
                  [gen[g] EXCEPT !.pc = "readState", !.sessionId = SessionId,
                                 !.userInput = userInput]]
    /\ UNCHANGED <<sumVars, geomVars, moveVars, sessionStatus, rateLimit, clock, generated,
                   messages, interp, call>>

InitEvents ==
    /\ SumAtRest
    /\ features = { f \in FeatureCatalog : f.name \in {"Pillar", "Crate"} }
    /\ geo = Idle
    /\ positions = [c \in CharacterIds |->
                        IF c = "hero" THEN PositionRow("cellar", Origin)
                        ELSE PositionRow("tavern", Pos(2, 2, 0))]
    /\ sessState \in InitialStates \ {NoRow}
    /\ apply = [r \in ReqIds |-> ApplyIdle]
    /\ sessionStatus = "ACTIVE"
    /\ rateLimit = [sid \in {SessionId, UnknownSession} |-> NoRow]
    /\ clock = 0
    /\ generated = 0
    /\ messages = <<>>
    /\ started = 0
    /\ gen = [g \in GenIds |-> GenIdle]
    /\ interp = NoReply
    /\ call = NoCall

NextEvents ==
    \/ \E r \in ReqIds, to \in {Pos(0, 2, 0), Pos(2, 2, 1)} :
          ApplyFindSession(r, SessionId, "hero", to)
    \/ \E r \in ReqIds : ApplyFindPosition(r)
    \/ \E r \in ReqIds : ApplyValidate(r)
    \/ \E r \in ReqIds : ApplyUpdatePosition(r)
    \/ \E r \in ReqIds : ApplyUpdateEvents(r)
    \/ \E userInput \in {UserInput, LongInput} : UpdateStateStart(Updater, userInput)
    \/ \E g \in GenIds : GenReadState(g)
    \/ \E g \in GenIds : GenUpsertState(g)
    \/ \E g \in GenIds : GenReturn(g)

SpecEvents == InitEvents /\ [][NextEvents]_vars

-----------------------------------------------------------------------------
(* SpecSummary: generateResponse calls and the background                    *)
(* autoSummarizeIfNeeded runs they start (part_011, lines 20-83 and 261-268; *)
(* ai-dungeon-master.ts, lines 144-147).  Each await of the summarizer is a  *)
(* step.  Message numbers count the rows of the Message table from 1.        *)

\* parseInt(process.env.AUTO_SUMMARIZE_MESSAGE_THRESHOLD || '15'), configured
\* to 2
AUTO_SUMMARIZE_MESSAGE_THRESHOLD == 2

\* Background runs that can be in flight together
SumIds == {"b1", "b2"}

SummaryRow(start, end) ==
    [exists |-> TRUE, messageRangeStart |-> start, messageRangeEnd |-> end]

SumIdle == [pc |-> "idle", lastSummary |-> NoRow, startMessageNumber |-> 0, allMessages |-> 0]

\* sessionSummary.findFirst({ orderBy: { messageRangeEnd: 'desc' } })
findLastSummary(rows) ==
    IF rows = <<>> THEN NoRow
    ELSE rows[CHOOSE i \in 1..Len(rows) :
                  \A j \in 1..Len(rows) :
                      rows[j].messageRangeEnd <= rows[i].messageRangeEnd]

\* lastSummary ? lastSummary.messageRangeEnd + 1 : 1
StartAfter(lastSummary) ==
    IF lastSummary.exists THEN lastSummary.messageRangeEnd + 1 ELSE 1

\* generateResponse returns its response, having started
\* autoSummarizeIfNeeded without awaiting it; a failed call starts nothing
ReturnAndSummarize(g, b) ==
    /\ gen[g].pc = "done"
    /\ gen' = [gen EXCEPT ![g] = GenIdle]
    /\ IF gen[g].error = ""
       THEN /\ summarize[b].pc = "idle"
            /\ summarize' = [summarize EXCEPT ![b].pc = "needsFindLast"]
       ELSE UNCHANGED summarize
    /\ UNCHANGED <<geomVars, moveVars, sessionStatus, rateLimit, clock, generated,
                   messages, started, summaryRows, interp, call>>

\* needsSummarization, sessionSummary.findFirst
NeedsFindLast(b) ==
    /\ summarize[b].pc = "needsFindLast"
    /\ summarize' = [summarize EXCEPT ![b].pc = "needsCount",
                                      ![b].lastSummary = findLastSummary(summaryRows)]
    /\ UNCHANGED <<geomVars, moveVars, genVars, summaryRows, interp, call>>

\* needsSummarization, message.count and the threshold; autoSummarizeIfNeeded
\* goes on to generateSummary or returns false
NeedsCount(b) ==
    /\ summarize[b].pc = "needsCount"
    /\ LET totalMessages == Len(messages)
           lastSummary == summarize[b].lastSummary
           needs == IF ~lastSummary.exists
                    THEN totalMessages >= AUTO_SUMMARIZE_MESSAGE_THRESHOLD
                    ELSE totalMessages - lastSummary.messageRangeEnd
                             >= AUTO_SUMMARIZE_MESSAGE_THRESHOLD
       IN  summarize' = [summarize EXCEPT ![b] =
                            IF needs THEN [@ EXCEPT !.pc = "findLast", !.lastSummary = NoRow]
                            ELSE SumIdle]
    /\ UNCHANGED <<geomVars, moveVars, genVars, summaryRows, interp, call>>

\* generateSummary, sessionSummary.findFirst
SummaryFindLast(b) ==
    /\ summarize[b].pc = "findLast"
    /\ summarize' = [summarize EXCEPT
                        ![b].pc = "findMessages",
                        ![b].startMessageNumber = StartAfter(findLastSummary(summaryRows))]
    /\ UNCHANGED <<geomVars, moveVars, genVars, summaryRows, interp, call>>

\* generateSummary, message.findMany; nothing to summarize ends the run
SummaryFindMessages(b) ==
    /\ summarize[b].pc = "findMessages"
    /\ summarize' = [summarize EXCEPT ![b] =
                        IF Len(messages) - (summarize[b].startMessageNumber - 1) <= 0
                        THEN SumIdle
                        ELSE [@ EXCEPT !.pc = "narrative", !.allMessages = Len(messages)]]
    /\ UNCHANGED <<geomVars, moveVars, genVars, summaryRows, interp, call>>

\* generateSummary, generateNarrativeSummary: the model's text or the
\* fallback text, never an error
SummaryNarrative(b) ==
    /\ summarize[b].pc = "narrative"
    /\ summarize' = [summarize EXCEPT ![b].pc = "create"]
    /\ UNCHANGED <<geomVars, moveVars, genVars, summaryRows, interp, call>>

\* generateSummary, sessionSummary.create
SummaryCreate(b) ==
    /\ summarize[b].pc = "create"
    /\ summaryRows' = Append(summaryRows, SummaryRow(summarize[b].startMessageNumber,
                                                 summarize[b].allMessages))
    /\ summarize' = [summarize EXCEPT ![b] = SumIdle]
    /\ UNCHANGED <<geomVars, moveVars, genVars, interp, call>>

InitSummary ==
    /\ features = { f \in FeatureCatalog : f.name \in {"Pillar", "Crate"} }
    /\ geo = Idle
    /\ positions = [c \in CharacterIds |->
                        IF c = "hero" THEN PositionRow("cellar", Origin)
                        ELSE PositionRow("tavern", Pos(2, 2, 0))]
    /\ sessState = StateRow("cellar", <<>>)
    /\ apply = [r \in {} |-> Idle]
    /\ sessionStatus = "ACTIVE"
    /\ rateLimit = [sid \in {SessionId, UnknownSession} |-> NoRow]
    /\ clock = 0
    /\ generated = 0
    /\ messages = <<>>
    /\ started = 0
    /\ gen = [g \in GenIds |-> GenIdle]
    /\ summaryRows = <<>>
    /\ summarize = [b \in SumIds |-> SumIdle]
    /\ interp = NoReply
    /\ call = NoCall

NextSummary ==
    \/ \E g \in GenIds : GenCheckRateLimit(g, SessionId)
    \/ \E g \in GenIds : GenResetWindow(g)
    \/ \E g \in GenIds : GenFindSession(g)
    \/ \E g \in GenIds : GenBuildContext(g)
    \/ \E g \in GenIds, reply \in { r \in GenReplies : r.json # JNull } :
          GenCallModel(g, reply)
    \/ \E g \in GenIds : GenValidate(g)
    \/ \E g \in GenIds : GenSaveUser(g)
    \/ \E g \in GenIds : GenSaveAssistant(g)
    \/ \E g \in GenIds : GenIncrementRateLimit(g)
    \/ \E g \in GenIds : GenReadState(g)
    \/ \E g \in GenIds : GenUpsertState(g)
    \/ \E g \in GenIds, b \in SumIds : ReturnAndSummarize(g, b)
    \/ \E b \in SumIds : NeedsFindLast(b)
    \/ \E b \in SumIds : NeedsCount(b)
    \/ \E b \in SumIds : SummaryFindLast(b)
    \/ \E b \in SumIds : SummaryFindMessages(b)
    \/ \E b \in SumIds : SummaryNarrative(b)
    \/ \E b \in SumIds : SummaryCreate(b)

SpecSummary == InitSummary /\ [][NextSummary]_vars

-----------------------------------------------------------------------------
(* SpecScene: characters are placed (location-service.ts) and the queries     *)
(* about the characters of a location are answered from the rows stored at    *)
(* that moment: findValidActions, getVisibleCharacters.  Lists whose order    *)
(* the database does not fix (findMany without orderBy) are sets.             *)

SceneCharacters == CharacterIds \cup {"mage"}

\* Positions characters are placed at: two are 1.5 m apart exactly, two are
\* 2.5 m apart with the pillar's box between them, one is 10 m away
ScenePoints ==
    { Origin, Pos(3, 0, 0), Pos(2, 2, 0), Pos(0, 4, 0), Pos(Metres(10), 0, 0) }

\* CharacterPosition rows that may be stored; locationId is nullable
ScenePlaces ==
    { PositionRow("cellar", p) : p \in ScenePoints } \cup
    { PositionRow("tavern", Pos(2, 2, 0)), PositionRow("", Origin) }

\* Feature tables of the scenes: none, the two blockers of the cellar, and a
\* cellar with seven features, one of them farther than 30 m
CellarClutter ==
    { Feature("Barrel", "cellar", Pos(2, 0, 0), 1, 1, 1, FALSE, FALSE, "NONE"),
      Feature("Torch", "cellar", Pos(0, 1, 1), 0, 0, 0, FALSE, FALSE, "NONE"),
      Feature("Far Statue", "cellar", Pos(Metres(31), 0, 0), 1, 1, 1, FALSE, FALSE, "NONE") }

Scenes ==
    { {},
      { f \in FeatureCatalog : f.name \in {"Pillar", "Crate"} },
      { f \in FeatureCatalog : f.locationId = "cellar" } \cup CellarClutter }

MovementRule(n, t, d, los) ==
    [name |-> n, interactionType |-> t, maxDistance |-> d, requiresLineOfSight |-> los]

\* Rules of the campaign, three of the default rules: 1.5 m, 9 m and 6 m,
\* counted in half metres
MovementRules ==
    << MovementRule("Melee Attack", "MELEE", 3, FALSE),
       MovementRule("Spell Casting", "SPELL", Metres(9), TRUE),
       MovementRule("Conversation", "CONVERSATION", Metres(6), FALSE) >>

HasPosition(characterId) ==
    /\ characterId \in DOMAIN positions
    /\ positions[characterId].exists

\* A range test that leaves the boundary out
WithinDistanceStrict(distanceSq, maxDistance) == distanceSq < maxDistance * maxDistance

\* distance <= rule.maxDistance, on the squares
WithinDistance(distanceSq, maxDistance) == distanceSq <= maxDistance * maxDistance

\* findMany({ where: { locationId: charPos.locationId, characterId: { not: characterId } } })
otherChars(characterId) ==
    { c \in DOMAIN positions :
          /\ c # characterId
          /\ positions[c].exists
          /\ positions[c].locationId = positions[characterId].locationId }

\* The inner loop of findValidActions for one rule
validTargets(rule, characterId) ==
    LET charPos == positions[characterId]
        inRange == { c \in otherChars(characterId) :
                        WithinDistance(calculateDistanceSq(PosOf(charPos), PosOf(positions[c])),
                                       rule.maxDistance) }
        seen == { c \in inRange :
                     (rule.requiresLineOfSight /\ charPos.locationId # "")
                         => checkLineOfSight(PosOf(charPos), PosOf(positions[c]),
                                             charPos.locationId) }
    IN  { [characterId |-> c,
           distanceSq |-> calculateDistanceSq(PosOf(charPos), PosOf(positions[c]))] :
              c \in seen }

findValidActions(characterId) ==
    IF ~HasPosition(characterId)
    THEN <<>>
    ELSE [i \in 1..Len(MovementRules) |->
             [ruleName |-> MovementRules[i].name,
              interactionType |-> MovementRules[i].interactionType,
              maxDistance |-> MovementRules[i].maxDistance,
              validTargets |-> validTargets(MovementRules[i], characterId)]]

\* A visibility test that lets everyone through
AlwaysVisible(position, charPos, locationId) == TRUE

\* hasLOS of getVisibleCharacters
hasLOS(position, charPos, locationId) == checkLineOfSight(position, charPos, locationId)

\* excludeCharacterId "" stands for the argument left out
getVisibleCharacters(position, locationId, excludeCharacterId) ==
    LET characters == { c \in DOMAIN positions :
                           /\ positions[c].exists
                           /\ positions[c].locationId = locationId
                           /\ (excludeCharacterId # "" => c # excludeCharacterId) }
    IN  { [characterId |-> c,
           position |-> PosOf(positions[c]),
           distanceSq |-> calculateDistanceSq(position, PosOf(positions[c]))] :
              c \in { d \in characters : hasLOS(position, PosOf(positions[d]), locationId) } }

\* The radius buildSpatialContext passes to getNearbyFeatures: 30 m
NearbyRadius == Metres(30)

\* .sort((a, b) => a.distance - b.distance): nearest first; rows at the same
\* distance come in the order the table returned them, which the query does
\* not fix
RECURSIVE sortByDistance(_)
sortByDistance(rows) ==
    IF rows = {} THEN <<>>
    ELSE LET nearest == CHOOSE f \in rows : \A g \in rows : f.distanceSq <= g.distanceSq
         IN  <<nearest>> \o sortByDistance(rows \ {nearest})

\* SpatialService.getNearbyFeatures
getNearbyFeatures(position, locationId, maxDistance) ==
    LET mapped == { [name |-> f.name,
                     position |-> Pos(f.x, f.y, f.z),
                     distanceSq |-> calculateDistanceSq(position, Pos(f.x, f.y, f.z))] :
                       f \in { g \in features : g.locationId = locationId } }
    IN  sortByDistance({ f \in mapped : WithinDistance(f.distanceSq, maxDistance) })

\* The targets of one rule as a list, in the order the table returned them
RECURSIVE targetList(_)
targetList(targets) ==
    IF targets = {} THEN <<>>
    ELSE LET t == CHOOSE u \in targets : TRUE
         IN  <<t>> \o targetList(targets \ {t})

\* validActions.flatMap(rule => rule.validTargets.map(...))
RECURSIVE flattenActions(_)
flattenActions(validActions) ==
    IF validActions = <<>> THEN <<>>
    ELSE LET rule == Head(validActions)
             targets == targetList(rule.validTargets)
         IN  [i \in 1..Len(targets) |->
                 [action |-> <<rule.interactionType, rule.ruleName>>,
                  targetId |-> targets[i].characterId,
                  requiresMovement |-> FALSE]]
             \o flattenActions(Tail(validActions))

\* SpatialService.buildSpatialContext: null without a row or a location
spatialServiceContext(characterId) ==
    IF ~HasPosition(characterId) \/ positions[characterId].locationId = ""
    THEN JNull
    ELSE LET charPos == positions[characterId]
             position == PosOf(charPos)
             visibleChars == getVisibleCharacters(position, charPos.locationId, characterId)
         IN  [kind |-> "object",
              characterPositions |->
                  { [characterId |-> char.characterId,
                     position |-> char.position,
                     distanceSq |-> char.distanceSq,
                     canSee |-> TRUE,
                     coverLevel |-> getCoverLevel(position, char.position, charPos.locationId)] :
                       char \in visibleChars },
              nearbyFeatures |-> getNearbyFeatures(position, charPos.locationId, NearbyRadius),
              availableActions |-> flattenActions(findValidActions(characterId))]

\* nearbyFeatures.slice(0, 5) and availableActions.slice(0, 5) of the prompt
\* builder (src/lib/openai.ts): the first five entries of a list
firstFive(array) == SubSeq(array, 1, IF Len(array) < 5 THEN Len(array) ELSE 5)

\* The lists of the spatial context as the context builder copies them
\* (nearbyFeatures.map, availableActions.map): every entry is kept
copyAll(array) == array

\* ContextBuilderService.buildSpatialContext for a given character: the
\* context handed to the prompt builder, undefined without a placed character
buildSpatialAIContext(characterId) ==
    IF ~HasPosition(characterId) \/ positions[characterId].locationId = ""
    THEN Undef
    ELSE LET spatialContext == spatialServiceContext(characterId)
         IN  IF spatialContext = JNull THEN Undef
             ELSE [kind |-> "object",
                   locationName |-> positions[characterId].locationId,
                   characterPosition |-> PosOf(positions[characterId]),
                   nearbyCharacters |-> spatialContext.characterPositions,
                   nearbyFeatures |->
                       copyAll([i \in 1..Len(spatialContext.nearbyFeatures) |->
                                   [name |-> spatialContext.nearbyFeatures[i].name,
                                    position |-> spatialContext.nearbyFeatures[i].position,
                                    distanceSq |-> spatialContext.nearbyFeatures[i].distanceSq]]),
                   availableActions |->
                       copyAll([i \in 1..Len(spatialContext.availableActions) |->
                                   [action |-> spatialContext.availableActions[i].action,
                                    targetName |-> spatialContext.availableActions[i].targetId,
                                    requiresMovement |->
                                        spatialContext.availableActions[i].requiresMovement]])]

\* LocationService.updateCharacterPosition: the row is created when missing
\* and then given the location and coordinates of the input
updateCharacterPosition(c, row) ==
    /\ geo = Idle
    /\ positions[c] # row
    /\ positions' = [positions EXCEPT ![c] = row]
    /\ UNCHANGED <<sumVars, geomVars, sessState, apply, genVars, interp, call>>

QueryValidActions(c) ==
    /\ geo = Idle
    /\ geo' = [op |-> "findValidActions", characterId |-> c, res |-> findValidActions(c)]
    /\ UNCHANGED <<sumVars, features, moveVars, genVars, interp, call>>

QueryVisibleCharacters(position, loc, excluded) ==
    /\ geo = Idle
    /\ geo' = [op |-> "getVisibleCharacters", a |-> position, loc |-> loc,
               excluded |-> excluded,
               res |-> getVisibleCharacters(position, loc, excluded)]
    /\ UNCHANGED <<sumVars, features, moveVars, genVars, interp, call>>

QuerySpatialContext(c) ==
    /\ geo = Idle
    /\ geo' = [op |-> "buildSpatialContext", characterId |-> c,
               res |-> buildSpatialAIContext(c)]
    /\ UNCHANGED <<sumVars, features, moveVars, genVars, interp, call>>

InitScene ==
    /\ SumAtRest
    /\ features \in Scenes
    /\ geo = Idle
    /\ positions = [c \in SceneCharacters |-> NoRow]
    /\ sessState = NoRow
    /\ apply = [r \in {} |-> Idle]
    /\ GenAtRest
    /\ interp = NoReply
    /\ call = NoCall

NextScene ==
    \/ \E c \in SceneCharacters, row \in ScenePlaces : updateCharacterPosition(c, row)
    \/ \E c \in SceneCharacters \cup {UnknownCharacter} : QueryValidActions(c)
    \/ \E position \in ScenePoints, loc \in LocationIds,
          excluded \in SceneCharacters \cup {""} :
          QueryVisibleCharacters(position, loc, excluded)
    \/ \E c \in SceneCharacters \cup {UnknownCharacter} : QuerySpatialContext(c)
    \/ QueryReturn

SpecScene == InitScene /\ [][NextScene]_vars

-----------------------------------------------------------------------------
(* Text: a string is the sequence of its characters, so that toLowerCase and *)
(* includes are computed as JavaScript computes them.                        *)

UpperCaseLetters ==
    <<"A", "B", "C", "D", "E", "F", "G", "H", "I", "J", "K", "L", "M", "N",
      "O", "P", "Q", "R", "S", "T", "U", "V", "W", "X", "Y", "Z">>

LowerCaseLetters ==
    <<"a", "b", "c", "d", "e", "f", "g", "h", "i", "j", "k", "l", "m", "n",
      "o", "p", "q", "r", "s", "t", "u", "v", "w", "x", "y", "z">>

\* String.prototype.toLowerCase
toLowerCase(str) ==
    [i \in 1..Len(str) |->
        IF \E k \in 1..Len(UpperCaseLetters) : UpperCaseLetters[k] = str[i]
        THEN LowerCaseLetters[CHOOSE k \in 1..Len(UpperCaseLetters) : UpperCaseLetters[k] = str[i]]
        ELSE str[i]]

\* String.prototype.includes
includes(str, part) ==
    \E i \in 1..(Len(str) - Len(part) + 1) : SubSeq(str, i, i + Len(part) - 1) = part

-----------------------------------------------------------------------------
(* MovementDetectorService: src/services/movement-detector.ts *)

\* movementKeywords, one definition per group
\* 'approach', 'move to', 'walk to', 'go to', 'head to', 'move toward', 'walk toward'
approachKeywords ==
    << <<"a", "p", "p", "r", "o", "a", "c", "h">>,
       <<"m", "o", "v", "e", " ", "t", "o">>,
       <<"w", "a", "l", "k", " ", "t", "o">>,
       <<"g", "o", " ", "t", "o">>,
       <<"h", "e", "a", "d", " ", "t", "o">>,
       <<"m", "o", "v", "e", " ", "t", "o", "w", "a", "r", "d">>,
       <<"w", "a", "l", "k", " ", "t", "o", "w", "a", "r", "d">> >>

\* 'charge', 'rush', 'attack', 'strike', 'engage', 'fight'
attackKeywords ==
    << <<"c", "h", "a", "r", "g", "e">>,
       <<"r", "u", "s", "h">>,
       <<"a", "t", "t", "a", "c", "k">>,
       <<"s", "t", "r", "i", "k", "e">>,
       <<"e", "n", "g", "a", "g", "e">>,
       <<"f", "i", "g", "h", "t">> >>

\* 'flee', 'run away', 'retreat', 'back away', 'step back', 'move back'
fleeKeywords ==
    << <<"f", "l", "e", "e">>,
       <<"r", "u", "n", " ", "a", "w", "a", "y">>,
       <<"r", "e", "t", "r", "e", "a", "t">>,
       <<"b", "a", "c", "k", " ", "a", "w", "a", "y">>,
       <<"s", "t", "e", "p", " ", "b", "a", "c", "k">>,
       <<"m", "o", "v", "e", " ", "b", "a", "c", "k">> >>

\* 'investigate', 'examine', 'inspect', 'look at', 'check out', 'search'
investigateKeywords ==
    << <<"i", "n", "v", "e", "s", "t", "i", "g", "a", "t", "e">>,
       <<"e", "x", "a", "m", "i", "n", "e">>,
       <<"i", "n", "s", "p", "e", "c", "t">>,
       <<"l", "o", "o", "k", " ", "a", "t">>,
       <<"c", "h", "e", "c", "k", " ", "o", "u", "t">>,
       <<"s", "e", "a", "r", "c", "h">> >>

\* 'talk to', 'speak to', 'approach to talk', 'go talk', 'converse with'
talkKeywords ==
    << <<"t", "a", "l", "k", " ", "t", "o">>,
       <<"s", "p", "e", "a", "k", " ", "t", "o">>,
       <<"a", "p", "p", "r", "o", "a", "c", "h", " ", "t", "o", " ", "t",
         "a", "l", "k">>,
       <<"g", "o", " ", "t", "a", "l", "k">>,
       <<"c", "o", "n", "v", "e", "r", "s", "e", " ", "w", "i", "t", "h">> >>

\* 'follow', 'tail', 'pursue', 'chase'
followKeywords ==
    << <<"f", "o", "l", "l", "o", "w">>,
       <<"t", "a", "i", "l">>,
       <<"p", "u", "r", "s", "u", "e">>,
       <<"c", "h", "a", "s", "e">> >>

\* 'move', 'walk', 'run', 'step', 'go', 'head'
generalKeywords ==
    << <<"m", "o", "v", "e">>,
       <<"w", "a", "l", "k">>,
       <<"r", "u", "n">>,
       <<"s", "t", "e", "p">>,
       <<"g", "o">>,
       <<"h", "e", "a", "d">> >>

\* A test that wants every keyword of the group in the text
containsEveryKeyword(text, keywords) ==
    \A k \in 1..Len(keywords) : includes(text, keywords[k])

\* keywords.some(keyword => text.includes(keyword))
containsKeywords(text, keywords) ==
    \E k \in 1..Len(keywords) : includes(text, keywords[k])

\* keywords.filter(k => lowerInput.includes(k))
matchedKeywords(text, keywords) ==
    SelectSeq(keywords, LAMBDA k : includes(text, k))

Intent(actionType, text, keywords) ==
    [detected |-> TRUE, actionType |-> actionType,
     keywords |-> matchedKeywords(text, keywords)]

detectMovementIntent(userInput) ==
    LET lowerInput == toLowerCase(userInput)
    IN  IF containsKeywords(lowerInput, attackKeywords)
        THEN Intent("MELEE", lowerInput, attackKeywords)
        ELSE IF containsKeywords(lowerInput, talkKeywords)
        THEN Intent("CONVERSATION", lowerInput, talkKeywords)
        ELSE IF containsKeywords(lowerInput, investigateKeywords)
        THEN Intent("PERCEPTION", lowerInput, investigateKeywords)
        ELSE IF containsKeywords(lowerInput, fleeKeywords)
        THEN Intent("MOVEMENT", lowerInput, fleeKeywords)
        ELSE IF containsKeywords(lowerInput, approachKeywords)
        THEN Intent("MOVEMENT", lowerInput, approachKeywords)
        ELSE IF containsKeywords(lowerInput, generalKeywords)
        THEN Intent("MOVEMENT", lowerInput, generalKeywords)
        ELSE [detected |-> FALSE]

\* Player inputs given to the detector
DetectorInputs ==
    { \* "Attack the orc and talk to him"
      <<"A", "t", "t", "a", "c", "k", " ", "t", "h", "e", " ", "o", "r", "c",
        " ", "a", "n", "d", " ", "t", "a", "l", "k", " ", "t", "o", " ", "h",
        "i", "m">>,
      \* "I talk to the innkeeper"
      <<"I", " ", "t", "a", "l", "k", " ", "t", "o", " ", "t", "h", "e", " ",
        "i", "n", "n", "k", "e", "e", "p", "e", "r">>,
      \* "Examine the chest"
      <<"E", "x", "a", "m", "i", "n", "e", " ", "t", "h", "e", " ", "c", "h",
        "e", "s", "t">>,
      \* "Run away!"
      <<"R", "u", "n", " ", "a", "w", "a", "y", "!">>,
      \* "walk to the door"
      <<"w", "a", "l", "k", " ", "t", "o", " ", "t", "h", "e", " ", "d", "o",
        "o", "r">>,
      \* "I step aside"
      <<"I", " ", "s", "t", "e", "p", " ", "a", "s", "i", "d", "e">>,
      \* "follow the thief"
      <<"f", "o", "l", "l", "o", "w", " ", "t", "h", "e", " ", "t", "h", "i",
        "e", "f">>,
      \* "I wait"
      <<"I", " ", "w", "a", "i", "t">>,
      \* "Greet the goblin"
      <<"G", "r", "e", "e", "t", " ", "t", "h", "e", " ", "g", "o", "b", "l",
        "i", "n">>,
      \* "CHARGE"
      <<"C", "H", "A", "R", "G", "E">>,
      \* "speak to the guard, then search"
      <<"s", "p", "e", "a", "k", " ", "t", "o", " ", "t", "h", "e", " ", "g",
        "u", "a", "r", "d", ",", " ", "t", "h", "e", "n", " ", "s", "e", "a",
        "r", "c", "h">>,
      \* "inspect, then step back"
      <<"i", "n", "s", "p", "e", "c", "t", ",", " ", "t", "h", "e", "n", " ",
        "s", "t", "e", "p", " ", "b", "a", "c", "k">>,
      \* "step back and go to the gate"
      <<"s", "t", "e", "p", " ", "b", "a", "c", "k", " ", "a", "n", "d", " ",
        "g", "o", " ", "t", "o", " ", "t", "h", "e", " ", "g", "a", "t", "e">>,
      \* ""
      <<>> }

-----------------------------------------------------------------------------
(* ContextBuilderService.findRelevantMechanics: src/unnamed/part_011 *)

\* MECHANICS_KEYWORDS, in the order of Object.entries
MECHANICS_KEYWORDS ==
    << [category |-> "COMBAT",
        keywords |->
            << <<"a", "t", "t", "a", "c", "k">>,
               <<"d", "a", "m", "a", "g", "e">>,
               <<"h", "i", "t">>,
               <<"f", "i", "g", "h", "t">>,
               <<"c", "o", "m", "b", "a", "t">>,
               <<"w", "e", "a", "p", "o", "n">>,
               <<"a", "r", "m", "o", "r">>,
               <<"a", "c">> >>],
       [category |-> "SKILL_CHECK",
        keywords |->
            << <<"r", "o", "l", "l">>,
               <<"c", "h", "e", "c", "k">>,
               <<"s", "a", "v", "e">>,
               <<"s", "a", "v", "i", "n", "g", " ", "t", "h", "r", "o", "w">>,
               <<"a", "b", "i", "l", "i", "t", "y">>,
               <<"s", "k", "i", "l", "l">> >>],
       [category |-> "MAGIC",
        keywords |->
            << <<"s", "p", "e", "l", "l">>,
               <<"c", "a", "s", "t">>,
               <<"m", "a", "g", "i", "c">>,
               <<"e", "n", "c", "h", "a", "n", "t">>,
               <<"r", "i", "t", "u", "a", "l">>,
               <<"a", "r", "c", "a", "n", "e">> >>],
       [category |-> "SOCIAL",
        keywords |->
            << <<"p", "e", "r", "s", "u", "a", "d", "e">>,
               <<"i", "n", "t", "i", "m", "i", "d", "a", "t", "e">>,
               <<"d", "e", "c", "e", "i", "v", "e">>,
               <<"i", "n", "s", "i", "g", "h", "t">>,
               <<"p", "e", "r", "f", "o", "r", "m", "a", "n", "c", "e">> >>],
       [category |-> "EXPLORATION",
        keywords |->
            << <<"s", "e", "a", "r", "c", "h">>,
               <<"i", "n", "v", "e", "s", "t", "i", "g", "a", "t", "e">>,
               <<"p", "e", "r", "c", "e", "p", "t", "i", "o", "n">>,
               <<"n", "a", "v", "i", "g", "a", "t", "e">>,
               <<"t", "r", "a", "c", "k">> >>],
       [category |-> "REST",
        keywords |->
            << <<"r", "e", "s", "t">>,
               <<"s", "l", "e", "e", "p">>,
               <<"r", "e", "c", "o", "v", "e", "r">>,
               <<"h", "e", "a", "l">>,
               <<"l", "o", "n", "g", " ", "r", "e", "s", "t">>,
               <<"s", "h", "o", "r", "t", " ", "r", "e", "s", "t">> >>] >>

\* A MechanicsRule row; a rule stored without keywords has the empty list
MechanicsRule(title, category, keywords, content) ==
    [title |-> title, category |-> category, keywords |-> keywords, content |-> content]

\* MechanicsRule rows the campaigns are made of
MechanicsRows ==
    [
      \* Grapple (COMBAT), keywords ['grab', 'wrestle'], content "d20"
      Grapple |->
          MechanicsRule(<<"G", "r", "a", "p", "p", "l", "e">>, "COMBAT",
          << <<"g", "r", "a", "b">>,
             <<"w", "r", "e", "s", "t", "l", "e">> >>,
          <<"d", "2", "0">>),
      \* Stealth (SKILL_CHECK), keywords ['sneak', 'hide'], content "dex"
      Stealth |->
          MechanicsRule(<<"S", "t", "e", "a", "l", "t", "h">>, "SKILL_CHECK",
          << <<"s", "n", "e", "a", "k">>,
             <<"h", "i", "d", "e">> >>,
          <<"d", "e", "x">>),
      \* Fireball (MAGIC), keywords ['fire'], content "8d6"
      Fireball |->
          MechanicsRule(<<"F", "i", "r", "e", "b", "a", "l", "l">>, "MAGIC",
          << <<"f", "i", "r", "e">> >>,
          <<"8", "d", "6">>),
      \* Haggle (SOCIAL), keywords absent, content "cha"
      Haggle |->
          MechanicsRule(<<"H", "a", "g", "g", "l", "e">>, "SOCIAL",
          <<>>,
          <<"c", "h", "a">>),
      \* Flanking (COMBAT), keywords ['flank'], content "+2"
      Flanking |->
          MechanicsRule(<<"F", "l", "a", "n", "k", "i", "n", "g">>, "COMBAT",
          << <<"f", "l", "a", "n", "k">> >>,
          <<"+", "2">>),
      \* Camp (REST), keywords ['Camp'], content "1h"
      Camp |->
          MechanicsRule(<<"C", "a", "m", "p">>, "REST",
          << <<"C", "a", "m", "p">> >>,
          <<"1", "h">>) ]

\* mechanicsRules of the campaigns the helper is given
MechanicsCampaigns ==
    { <<>>,
      <<MechanicsRows.Stealth>>,
      <<MechanicsRows.Grapple, MechanicsRows.Stealth, MechanicsRows.Fireball,
        MechanicsRows.Haggle>>,
      <<MechanicsRows.Grapple, MechanicsRows.Flanking, MechanicsRows.Stealth,
        MechanicsRows.Fireball, MechanicsRows.Camp>> }

\* Player inputs given to the helper
MechanicsInputs ==
    { \* "I sneak past the guard"
      <<"I", " ", "s", "n", "e", "a", "k", " ", "p", "a", "s", "t", " ", "t",
        "h", "e", " ", "g", "u", "a", "r", "d">>,
      \* "I attack and grab him"
      <<"I", " ", "a", "t", "t", "a", "c", "k", " ", "a", "n", "d", " ", "g",
        "r", "a", "b", " ", "h", "i", "m">>,
      \* "I cast a spell and hide"
      <<"I", " ", "c", "a", "s", "t", " ", "a", " ", "s", "p", "e", "l", "l",
        " ", "a", "n", "d", " ", "h", "i", "d", "e">>,
      \* "hello there"
      <<"h", "e", "l", "l", "o", " ", "t", "h", "e", "r", "e">>,
      \* "I attack, cast fire, then sneak to rest"
      <<"I", " ", "a", "t", "t", "a", "c", "k", ",", " ", "c", "a", "s", "t",
        " ", "f", "i", "r", "e", ",", " ", "t", "h", "e", "n", " ", "s", "n",
        "e", "a", "k", " ", "t", "o", " ", "r", "e", "s", "t">>,
      \* "We make camp"
      <<"W", "e", " ", "m", "a", "k", "e", " ", "c", "a", "m", "p">>,
      \* "Roll to hit"
      <<"R", "o", "l", "l", " ", "t", "o", " ", "h", "i", "t">> }

\* The categories with a keyword in the lower-cased input
relevantCategories(userInputLower) ==
    { MECHANICS_KEYWORDS[c].category : c \in
          { d \in 1..Len(MECHANICS_KEYWORDS) :
                \E k \in 1..Len(MECHANICS_KEYWORDS[d].keywords) :
                    includes(userInputLower, MECHANICS_KEYWORDS[d].keywords[k]) } }

\* rule.keywords.some(keyword => userInputLower.includes(keyword.toLowerCase()))
hasKeyword(rule, userInputLower) ==
    \E k \in 1..Len(rule.keywords) : includes(userInputLower, toLowerCase(rule.keywords[k]))

\* `${rule.title}: ${rule.content}`
FormatRule(rule) == rule.title \o <<":", " ">> \o rule.content

RECURSIVE FormatRules(_)
FormatRules(rules) ==
    IF rules = <<>> THEN <<>>
    ELSE <<FormatRule(Head(rules))>> \o FormatRules(Tail(rules))

\* array.slice(0, n)
Slice(array, n) == SubSeq(array, 1, IF Len(array) < n THEN Len(array) ELSE n)

MaxMechanicsRules == 3

findRelevantMechanics(mechanicsRules, userInput) ==
    LET userInputLower == toLowerCase(userInput)
        categories == relevantCategories(userInputLower)
        Relevant(rule) ==
            \/ rule.category \in categories
            \/ hasKeyword(rule, userInputLower)
    IN  IF categories = {}
        THEN <<>>
        ELSE Slice(FormatRules(SelectSeq(mechanicsRules, Relevant)), MaxMechanicsRules)

\* A context field that is never left undefined
AlwaysList(mechanicsRules) == [kind |-> "array", items |-> mechanicsRules]

\* buildContext: mechanicsRules.length > 0 ? mechanicsRules : undefined
MechanicsField(mechanicsRules) ==
    IF Len(mechanicsRules) > 0
    THEN [kind |-> "array", items |-> mechanicsRules]
    ELSE Undef

-----------------------------------------------------------------------------
(* buildToneGuidelines: src/unnamed/part_011, lines 551-590                  *)

\* A value of SessionStateContext as buildStateContext returns it, reduced to
\* the two fields the helpers read. An absent currentLocation is the empty
\* string (state.currentLocation || undefined makes the two alike) and an
\* absent activeNPCs is Undef
StateContext(currentLocation, activeNPCs) ==
    [kind |-> "object", currentLocation |-> currentLocation, activeNPCs |-> activeNPCs]

Crypt == <<"C", "r", "y", "p", "t">>

Tavern == <<"T", "a", "v", "e", "r", "n">>

Bob == <<"B", "o", "b">>

Mira == <<"M", "i", "r", "a">>

NoText == <<>>

\* An array value
Array(items) == [kind |-> "array", items |-> items]

\* The current states the helpers are given: no state row, a state with
\* neither field, and states with a location, an NPC list or both
HelperStates ==
    { Undef,
      StateContext(NoText, Undef),
      StateContext(Crypt, Undef),
      StateContext(NoText, Array(<<Bob>>)),
      StateContext(Tavern, Array(<<>>)),
      StateContext(Tavern, Array(<<Mira, Bob>>)),
      StateContext(Crypt, Array(<<Mira>>)) }

\* A ToneProfile row whose conditions column is null
NoConditions == [kind |-> "null"]

\* The conditions object of a ToneProfile row; an absent key is the empty
\* string, which the code's truthiness tests treat alike
Conditions(location, npcPresent) ==
    [kind |-> "object", location |-> location, npcPresent |-> npcPresent]

ToneProfile(name, priority, conditions, toneRules) ==
    [name |-> name, priority |-> priority, conditions |-> conditions,
     toneRules |-> toneRules]

\* ToneProfile rows the campaigns are made of, with their priorities
ToneRows ==
    [
      \* Tone of the crypt: location 'crypt'
      Crypt |->
          ToneProfile("Crypt", 5, Conditions(<<"c", "r", "y", "p", "t">>, NoText), Text("grim")),
      \* Tone with Bob around: npcPresent 'bob'
      Bob |->
          ToneProfile("Bob", 4, Conditions(NoText, <<"b", "o", "b">>), Text("jovial")),
      \* Tone of the tavern with Mira in it: location 'Tavern', npcPresent 'Mira'
      TavernMira |->
          ToneProfile("TavernMira", 3, Conditions(Tavern, Mira), Text("warm")),
      \* A profile whose conditions object has neither key
      Open |->
          ToneProfile("Open", 2, Conditions(NoText, NoText), Text("plain")),
      \* A profile without conditions
      Default |->
          ToneProfile("Default", 1, NoConditions, Text("neutral")) ]

\* campaign.toneProfiles as the query returns them: by descending priority
ToneCampaigns ==
    { <<>>,
      <<ToneRows.Default>>,
      <<ToneRows.Crypt, ToneRows.Default>>,
      <<ToneRows.Crypt, ToneRows.Bob, ToneRows.TavernMira>>,
      <<ToneRows.Bob, ToneRows.TavernMira, ToneRows.Open, ToneRows.Default>>,
      <<ToneRows.TavernMira, ToneRows.Default>> }

\* currentState?.currentLocation and currentState?.activeNPCs are truthy
HasLocation(currentState) ==
    currentState # Undef /\ currentState.currentLocation # NoText

HasNPCs(currentState) ==
    currentState # Undef /\ currentState.activeNPCs # Undef

\* The value of `matches` after both condition checks of the loop body
ProfileMatches(profile, currentState) ==
    LET conditions == profile.conditions
        locationOk ==
            IF conditions.location # NoText /\ HasLocation(currentState)
            THEN toLowerCase(currentState.currentLocation) = toLowerCase(conditions.location)
            ELSE TRUE
        npcOk ==
            IF conditions.npcPresent # NoText /\ HasNPCs(currentState)
            THEN \E i \in 1..Len(currentState.activeNPCs.items) :
                    toLowerCase(currentState.activeNPCs.items[i]) = toLowerCase(conditions.npcPresent)
            ELSE TRUE
    IN  locationOk /\ npcOk

\* The profile returns from inside the loop
ProfileApplies(profile, currentState) ==
    \/ profile.conditions = NoConditions
    \/ /\ profile.conditions # NoConditions
       /\ ProfileMatches(profile, currentState)

buildToneGuidelines(toneProfiles, currentState) ==
    IF Len(toneProfiles) = 0 THEN Undef
    ELSE LET applying == { i \in 1..Len(toneProfiles) :
                              ProfileApplies(toneProfiles[i], currentState) }
         IN  IF applying # {}
             THEN toneProfiles[CHOOSE i \in applying : \A j \in applying : i <= j].toneRules
             ELSE toneProfiles[1].toneRules

-----------------------------------------------------------------------------
(* findRelevantKnowledge: src/unnamed/part_011, lines 489-546                *)

\* A KnowledgeEntry row; a row stored without keywords has the empty list
KnowledgeEntry(title, category, keywords, content) ==
    [title |-> title, category |-> category, keywords |-> keywords, content |-> content]

\* KnowledgeEntry rows the campaigns are made of
KnowledgeRows ==
    [
      \* Crypt (LOCATION), keywords ['tomb', 'bones']
      Crypt |->
          KnowledgeEntry(<<"C", "r", "y", "p", "t">>, "LOCATION",
          << <<"t", "o", "m", "b">>,
             <<"b", "o", "n", "e", "s">> >>,
          "k1"),
      \* Tavern (LOCATION), keywords ['ale']
      Tavern |->
          KnowledgeEntry(<<"T", "a", "v", "e", "r", "n">>, "LOCATION",
          << <<"a", "l", "e">> >>,
          "k2"),
      \* Bob the Smith (NPC), keywords ['smith', 'forge']
      Smith |->
          KnowledgeEntry(<<"B", "o", "b", " ", "t", "h", "e", " ", "S", "m", "i",
            "t", "h">>, "NPC",
          << <<"s", "m", "i", "t", "h">>,
             <<"f", "o", "r", "g", "e">> >>,
          "k3"),
      \* Mira (NPC), keywords absent
      Mira |->
          KnowledgeEntry(<<"M", "i", "r", "a">>, "NPC",
          <<>>,
          "k4"),
      \* Dragon (LORE), keywords ['fire', 'wyrm', 'Dragon']
      Dragon |->
          KnowledgeEntry(<<"D", "r", "a", "g", "o", "n">>, "LORE",
          << <<"f", "i", "r", "e">>,
             <<"w", "y", "r", "m">>,
             <<"D", "r", "a", "g", "o", "n">> >>,
          "k5"),
      \* Sword (ITEM), keywords ['blade']
      Sword |->
          KnowledgeEntry(<<"S", "w", "o", "r", "d">>, "ITEM",
          << <<"b", "l", "a", "d", "e">> >>,
          "k6"),
      \* Guild (FACTION), keywords ['thieves', 'guild']
      Guild |->
          KnowledgeEntry(<<"G", "u", "i", "l", "d">>, "FACTION",
          << <<"t", "h", "i", "e", "v", "e", "s">>,
             <<"g", "u", "i", "l", "d">> >>,
          "k7"),
      \* Old Crypt Map (ITEM), keywords ['map', 'crypt']
      Map |->
          KnowledgeEntry(<<"O", "l", "d", " ", "C", "r", "y", "p", "t", " ", "M",
            "a", "p">>, "ITEM",
          << <<"m", "a", "p">>,
             <<"c", "r", "y", "p", "t">> >>,
          "k8") ]

\* campaign.knowledge of the campaigns the helper is given
KnowledgeCampaigns ==
    { <<>>,
      <<KnowledgeRows.Sword, KnowledgeRows.Crypt, KnowledgeRows.Smith>>,
      <<KnowledgeRows.Sword, KnowledgeRows.Guild, KnowledgeRows.Crypt,
        KnowledgeRows.Tavern, KnowledgeRows.Smith, KnowledgeRows.Mira,
        KnowledgeRows.Dragon, KnowledgeRows.Map>> }

\* Player inputs given to the helper
KnowledgeInputs ==
    {
      \* "Hello there"
      <<"H", "e", "l", "l", "o", " ", "t", "h", "e", "r", "e">>,
      \* "I ask Mira about the dragon fire and the thieves guild"
      <<"I", " ", "a", "s", "k", " ", "M", "i", "r", "a", " ", "a", "b", "o",
        "u", "t", " ", "t", "h", "e", " ", "d", "r", "a", "g", "o", "n", " ",
        "f", "i", "r", "e", " ", "a", "n", "d", " ", "t", "h", "e", " ", "t",
        "h", "i", "e", "v", "e", "s", " ", "g", "u", "i", "l", "d">>,
      \* "In the crypt tavern I draw my sword blade and ask Bob the smith for ale and a map"
      <<"I", "n", " ", "t", "h", "e", " ", "c", "r", "y", "p", "t", " ", "t",
        "a", "v", "e", "r", "n", " ", "I", " ", "d", "r", "a", "w", " ", "m",
        "y", " ", "s", "w", "o", "r", "d", " ", "b", "l", "a", "d", "e", " ",
        "a", "n", "d", " ", "a", "s", "k", " ", "B", "o", "b", " ", "t", "h",
        "e", " ", "s", "m", "i", "t", "h", " ", "f", "o", "r", " ", "a", "l",
        "e", " ", "a", "n", "d", " ", "a", " ", "m", "a", "p">>,
      \* "Crypt tavern sword guild dragon and Bob the Smith"
      <<"C", "r", "y", "p", "t", " ", "t", "a", "v", "e", "r", "n", " ", "s",
        "w", "o", "r", "d", " ", "g", "u", "i", "l", "d", " ", "d", "r", "a",
        "g", "o", "n", " ", "a", "n", "d", " ", "B", "o", "b", " ", "t", "h",
        "e", " ", "S", "m", "i", "t", "h">> }

\* item.keywords.forEach: 5 for every keyword the input includes
RECURSIVE keywordScore(_, _)
keywordScore(keywords, userInputLower) ==
    IF keywords = <<>> THEN 0
    ELSE (IF includes(userInputLower, toLowerCase(Head(keywords))) THEN 5 ELSE 0)
         + keywordScore(Tail(keywords), userInputLower)

\* currentState.activeNPCs.forEach: 12 for every NPC whose name the title includes
RECURSIVE npcScore(_, _)
npcScore(activeNPCs, titleLower) ==
    IF activeNPCs = <<>> THEN 0
    ELSE (IF includes(titleLower, toLowerCase(Head(activeNPCs))) THEN 12 ELSE 0)
         + npcScore(Tail(activeNPCs), titleLower)

\* The score of one entry when the forEach body has run
scoreOf(item, userInputLower, currentState) ==
    (IF includes(userInputLower, toLowerCase(item.title)) THEN 10 ELSE 0)
    + keywordScore(item.keywords, userInputLower)
    + (IF /\ HasLocation(currentState)
          /\ item.category = "LOCATION"
          /\ toLowerCase(item.title) = toLowerCase(currentState.currentLocation)
       THEN 15 ELSE 0)
    + (IF HasNPCs(currentState) /\ item.category = "NPC"
       THEN npcScore(currentState.activeNPCs.items, toLowerCase(item.title))
       ELSE 0)

\* scored: the entries with a positive score, in the order of the list
RECURSIVE scoreAll(_, _, _)
scoreAll(knowledge, userInputLower, currentState) ==
    IF knowledge = <<>> THEN <<>>
    ELSE LET item == Head(knowledge)
             score == scoreOf(item, userInputLower, currentState)
             rest == scoreAll(Tail(knowledge), userInputLower, currentState)
         IN  IF score > 0 THEN <<[item |-> item, score |-> score]>> \o rest ELSE rest

\* A sort that leaves the list as it is
keepOrder(scored) == scored

\* scored.sort((a, b) => b.score - a.score): by descending score, entries of
\* equal score keeping their order
sortByScore(scored) ==
    LET before(j, i) == \/ scored[j].score > scored[i].score
                        \/ scored[j].score = scored[i].score /\ j < i
        rank(i) == Cardinality({ j \in 1..Len(scored) : before(j, i) }) + 1
    IN  [k \in 1..Len(scored) |-> scored[CHOOSE i \in 1..Len(scored) : rank(i) = k]]

MaxKnowledge == 5

findRelevantKnowledge(knowledge, userInput, currentState) ==
    LET userInputLower == toLowerCase(userInput)
        scored == scoreAll(knowledge, userInputLower, currentState)
        top == Slice(sortByScore(scored), MaxKnowledge)
    IN  [k \in 1..Len(top) |-> [title |-> top[k].item.title, content |-> top[k].item.content]]

-----------------------------------------------------------------------------
(* buildContext with every part of the context:                              *)
(* src/unnamed/part_011, lines 294-404                                       *)

\* A SessionState row with the columns the helpers read
HelperStateRow(currentLocation, activeNPCs) ==
    [exists |-> TRUE, currentLocation |-> currentLocation, activeNPCs |-> activeNPCs]

\* session.state: absent, a fresh row (no location, activeNPCs not an array)
\* and a row with both columns set
HelperStateRows ==
    { NoRow,
      HelperStateRow(NoText, JNull),
      HelperStateRow(Crypt, Array(<<Mira>>)) }

\* buildStateContext on those columns: undefined without a row
stateContextOf(state) ==
    IF ~state.exists THEN Undef
    ELSE StateContext(state.currentLocation,
                      IF state.activeNPCs.kind = "array" THEN state.activeNPCs ELSE Undef)

\* session.summaries: the latest summary, if any (take: 1)
SummaryLists == { <<>>, <<[summary |-> Text("The party entered the crypt")]>> }

\* session.summaries[0]?.summary
recentSummaryOf(summaries) ==
    IF Len(summaries) = 0 THEN Undef ELSE summaries[1].summary

\* CharacterPosition rows of the campaign's first character: no row, a row
\* without a location, a row in the cellar
HelperPositionRows ==
    { [c \in {} |-> NoRow],
      [c \in {FirstCharacter} |-> PositionRow("", Origin)],
      [c \in {FirstCharacter} |-> PositionRow("cellar", Pos(2, 2, 0))] }

\* session.messages as the query returns them: newest first
HelperMessages ==
    << [role |-> "ASSISTANT", content |-> "The door creaks open."],
       [role |-> "USER", content |-> "I open the door"] >>

\* The Message table of a session in creation order: the i-th row was
\* created i-th and its content names it
MaxMessages == 7     \* rows in the Message table

MessageRoles == {"USER", "ASSISTANT", "SYSTEM"}

MessageTables ==
    UNION { { [i \in 1..n |-> [role |-> roles[i], content |-> i, createdAt |-> i]] :
                roles \in [1..n -> MessageRoles] } : n \in 0..MaxMessages }

\* The include of messages without its where clause
messagesUnfiltered(table) ==
    LET newestFirst == [i \in 1..Len(table) |-> table[Len(table) + 1 - i]]
    IN  SubSeq(newestFirst, 1, IF Len(newestFirst) < 5 THEN Len(newestFirst) ELSE 5)

\* messages: { orderBy: { createdAt: 'desc' }, take: 5,
\*             where: { role: { not: 'SYSTEM' } } }
messagesQuery(table) ==
    LET NotSystem(m) == m.role # "SYSTEM"
        kept == SelectSeq(table, NotSystem)
        newestFirst == [i \in 1..Len(kept) |-> kept[Len(kept) + 1 - i]]
    IN  SubSeq(newestFirst, 1, IF Len(newestFirst) < 5 THEN Len(newestFirst) ELSE 5)

\* Array.prototype.reverse
Reverse(array) == [i \in 1..Len(array) |-> array[Len(array) + 1 - i]]

\* session.messages.reverse().map(m => ({ role, content }))
recentMessagesOf(rows) ==
    LET reversed == Reverse(rows)
    IN  [i \in 1..Len(reversed) |->
            [role |-> reversed[i].role, content |-> reversed[i].content]]

HelperCampaign ==
    [name |-> "Ashfall",
     knowledge |-> <<KnowledgeRows.Sword, KnowledgeRows.Crypt, KnowledgeRows.Smith>>,
     toneProfiles |-> <<ToneRows.Crypt, ToneRows.Default>>,
     mechanicsRules |-> <<MechanicsRows.Stealth, MechanicsRows.Grapple>>]

\* What session.findUnique returns: null, or the session with its includes
NoSession == [exists |-> FALSE]

SessionRow(state, summaries, positionRows) ==
    [exists |-> TRUE, campaign |-> HelperCampaign, state |-> state,
     summaries |-> summaries, messages |-> HelperMessages,
     positionRows |-> positionRows]

HelperSessions ==
    {NoSession} \cup
    { SessionRow(state, summaries, positionRows) :
        state \in HelperStateRows, summaries \in SummaryLists,
        positionRows \in HelperPositionRows }

\* An error thrown to the caller
Thrown(message) == [kind |-> "error", message |-> message]

\* await this.buildSpatialContext(sessionId): its value, or the error a
\* query inside it raises
spatialOutcome(positionRows, spatialError) ==
    IF spatialError THEN Thrown("spatial") ELSE buildSpatialContext(positionRows)

\* An error that nothing catches
uncaught(outcome) == outcome

\* try { spatialContext = ... } catch (error) { }: spatialContext stays
\* undefined when the call throws
catchSpatial(outcome) ==
    IF outcome.kind = "error" THEN Undef ELSE outcome

\* buildContext: the context it returns or the error it throws
buildEnhancedContext(session, userInput, spatialError) ==
    IF ~session.exists THEN Thrown("Session not found")
    ELSE LET currentState == stateContextOf(session.state)
             mechanicsRules == findRelevantMechanics(session.campaign.mechanicsRules, userInput)
             spatialContext == catchSpatial(spatialOutcome(session.positionRows, spatialError))
         IN  IF spatialContext.kind = "error" THEN spatialContext
             ELSE [kind |-> "context",
                   campaignName |-> session.campaign.name,
                   currentState |-> currentState,
                   spatialContext |-> spatialContext,
                   recentSummary |-> recentSummaryOf(session.summaries),
                   recentMessages |-> recentMessagesOf(session.messages),
                   relevantKnowledge |->
                       findRelevantKnowledge(session.campaign.knowledge, userInput, currentState),
                   toneGuidelines |->
                       buildToneGuidelines(session.campaign.toneProfiles, currentState),
                   mechanicsRules |-> MechanicsField(mechanicsRules)]

\* Player inputs given to buildContext
ContextInputs ==
    { \* "I attack Bob the smith with my sword"
      <<"I", " ", "a", "t", "t", "a", "c", "k", " ", "B", "o", "b", " ", "t",
        "h", "e", " ", "s", "m", "i", "t", "h", " ", "w", "i", "t", "h", " ",
        "m", "y", " ", "s", "w", "o", "r", "d">>,
      \* "Hello there"
      <<"H", "e", "l", "l", "o", " ", "t", "h", "e", "r", "e">> }

-----------------------------------------------------------------------------
(* suggestMovement and calculateTurnMovement:                                *)
(* src/services/spatial-service.ts, lines 375-406 and 488-519                *)
(* Lengths are in half metres.  The inputs of suggestMovement are those      *)
(* whose horizontal length is a whole number of half metres, so that         *)
(* Math.sqrt and the divisions are exact rationals <<n, d>>.                 *)

\* Math.sqrt on a perfect square
Sqrt(n) == CHOOSE r \in 0..n : r * r = n

\* A position whose x and y are rationals
RationalPos(x, y, z) == [x |-> x, y |-> y, z |-> z]

\* Math.max(0, length - targetDistance) without the clamp at 0
Unclamped(length, targetDistance) == length - targetDistance

\* Math.max(0, length - targetDistance)
MoveDistance(length, targetDistance) ==
    IF length - targetDistance > 0 THEN length - targetDistance ELSE 0

\* SpatialService.suggestMovement; the action argument is not read
suggestMovement(currentPos, targetPos, targetDistance) ==
    LET dirX == targetPos.x - currentPos.x
        dirY == targetPos.y - currentPos.y
        length == Sqrt(dirX * dirX + dirY * dirY)
        moveDistance == MoveDistance(length, targetDistance)
    IN  IF length = 0
        THEN RationalPos(Quot(currentPos.x, 1), Quot(currentPos.y, 1), currentPos.z)
        ELSE RationalPos(Quot(currentPos.x * length + dirX * moveDistance, length),
                         Quot(currentPos.y * length + dirY * moveDistance, length),
                         currentPos.z)

\* Where the mover stands and where the target stands
MoverPoints == { Origin, Pos(1, 2, 1) }

TargetOffsets ==
    { Pos(0, 0, 0), Pos(0, 0, 2), Pos(4, 0, 0), Pos(0, -3, 0), Pos(3, 4, 0),
      Pos(-6, 8, 0), Pos(2, 0, 6), Pos(3, 4, 12), Pos(-4, -3, 1) }

\* Desired separations, in half metres
Separations == { 0, 2, 3, 5, 12 }

\* A nullable number: <<>> is null, <<n>> is the number n
Null == <<>>

Num(n) == <<n>>

\* The Character rows calculateTurnMovement may find: none, one with no rate,
\* one with rate 0, and ones with a rate of 6 m and of 9 m
CharacterRows ==
    { Undef, [baseMovementRate |-> Null], [baseMovementRate |-> Num(0)],
      [baseMovementRate |-> Num(Metres(6))], [baseMovementRate |-> Num(Metres(9))] }

\* Distances in half metres, and the modifiers: half speed, walking, running
TurnDistances == { 0, 1, 11, 12, 13, 18, 19, 24, 36, 37, 40 }

MovementModifiers == { Quot(1, 2), Quot(1, 1), Quot(2, 1) }

\* character?.baseMovementRate || 9.0: null, undefined and 0 give the default
\* of 9 metres
baseRateOf(character) ==
    IF character = Undef THEN Metres(9)
    ELSE IF character.baseMovementRate = Null THEN Metres(9)
    ELSE IF character.baseMovementRate[1] = 0 THEN Metres(9)
    ELSE character.baseMovementRate[1]

\* Math.floor of n / d, for n >= 0 and d > 0
Floor(n, d) == n \div d

\* Math.ceil of n / d, for n >= 0 and d > 0
Ceil(n, d) == (n + d - 1) \div d

\* SpatialService.calculateTurnMovement; the effective rate is the rational
\* baseRate * movementModifier, and distance / effectiveRate is
\* (distance * m[2]) / (baseRate * m[1])
calculateTurnMovement(character, distance, movementModifier) ==
    LET baseRate == baseRateOf(character)
    IN  [baseMovementRate |-> baseRate,
         canReachInOneTurn |->
             distance * movementModifier[2] <= baseRate * movementModifier[1],
         turnsRequired |->
             Ceil(distance * movementModifier[2], baseRate * movementModifier[1]),
         movementModifier |-> movementModifier]

-----------------------------------------------------------------------------
(* SpecHelpers: the pure helpers of the detector and of the context builder   *)
(* applied to inputs drawn from the sets above.                               *)

Detect(userInput) ==
    /\ call = NoCall
    /\ call' = [op |-> "detectMovementIntent", input |-> userInput,
                res |-> detectMovementIntent(userInput)]
    /\ UNCHANGED <<sumVars, geomVars, moveVars, genVars, interp>>

\* findRelevantMechanics as buildContext calls it, with the field buildContext
\* makes of the result
FindMechanics(mechanicsRules, userInput) ==
    /\ call = NoCall
    /\ call' = [op |-> "findRelevantMechanics", rules |-> mechanicsRules,
                input |-> userInput,
                res |-> findRelevantMechanics(mechanicsRules, userInput),
                field |-> MechanicsField(findRelevantMechanics(mechanicsRules, userInput))]
    /\ UNCHANGED <<sumVars, geomVars, moveVars, genVars, interp>>

\* buildToneGuidelines as buildContext calls it
BuildTone(toneProfiles, currentState) ==
    /\ call = NoCall
    /\ call' = [op |-> "buildToneGuidelines", profiles |-> toneProfiles,
                state |-> currentState,
                res |-> buildToneGuidelines(toneProfiles, currentState)]
    /\ UNCHANGED <<sumVars, geomVars, moveVars, genVars, interp>>

\* findRelevantKnowledge as buildContext calls it
FindKnowledge(knowledge, userInput, currentState) ==
    /\ call = NoCall
    /\ call' = [op |-> "findRelevantKnowledge", knowledge |-> knowledge,
                input |-> userInput, state |-> currentState,
                res |-> findRelevantKnowledge(knowledge, userInput, currentState)]
    /\ UNCHANGED <<sumVars, geomVars, moveVars, genVars, interp>>

\* buildContext for a session id that resolves to the session, or to none
BuildContext(session, userInput, spatialError) ==
    /\ call = NoCall
    /\ call' = [op |-> "buildContext", session |-> session, input |-> userInput,
                spatialError |-> spatialError,
                res |-> buildEnhancedContext(session, userInput, spatialError)]
    /\ UNCHANGED <<sumVars, geomVars, moveVars, genVars, interp>>

SuggestMovement(currentPos, offset, targetDistance) ==
    /\ call = NoCall
    /\ LET targetPos == Pos(currentPos.x + offset.x, currentPos.y + offset.y,
                            currentPos.z + offset.z)
       IN  call' = [op |-> "suggestMovement", current |-> currentPos,
                    target |-> targetPos, d |-> targetDistance,
                    res |-> suggestMovement(currentPos, targetPos, targetDistance)]
    /\ UNCHANGED <<sumVars, geomVars, moveVars, genVars, interp>>

CalculateTurnMovement(character, distance, movementModifier) ==
    /\ call = NoCall
    /\ call' = [op |-> "calculateTurnMovement", character |-> character,
                distance |-> distance,
                res |-> calculateTurnMovement(character, distance, movementModifier)]
    /\ UNCHANGED <<sumVars, geomVars, moveVars, genVars, interp>>

\* The messages part of buildContext on a Message table
RecentMessages(table) ==
    /\ call = NoCall
    /\ call' = [op |-> "recentMessages", table |-> table,
                res |-> recentMessagesOf(messagesQuery(table))]
    /\ UNCHANGED <<sumVars, geomVars, moveVars, genVars, interp>>

\* The answer has been handed to the caller
CallReturn ==
    /\ call # NoCall
    /\ call' = NoCall
    /\ UNCHANGED <<sumVars, geomVars, moveVars, genVars, interp>>

InitHelpers ==
    /\ SumAtRest
    /\ features = {}
    /\ geo = Idle
    /\ MoveAtRest
    /\ GenAtRest
    /\ interp = NoReply
    /\ call = NoCall

NextHelpers ==
    \/ \E userInput \in DetectorInputs : Detect(userInput)
    \/ \E mechanicsRules \in MechanicsCampaigns,
          userInput \in MechanicsInputs \cup DetectorInputs :
          FindMechanics(mechanicsRules, userInput)
    \/ \E toneProfiles \in ToneCampaigns, currentState \in HelperStates :
          BuildTone(toneProfiles, currentState)
    \/ \E knowledge \in KnowledgeCampaigns, userInput \in KnowledgeInputs,
          currentState \in HelperStates :
          FindKnowledge(knowledge, userInput, currentState)
    \/ \E session \in HelperSessions, userInput \in ContextInputs,
          spatialError \in BOOLEAN :
          BuildContext(session, userInput, spatialError)
    \/ \E currentPos \in MoverPoints, offset \in TargetOffsets,
          targetDistance \in Separations :
          SuggestMovement(currentPos, offset, targetDistance)
    \/ \E character \in CharacterRows, distance \in TurnDistances,
          movementModifier \in MovementModifiers :
          CalculateTurnMovement(character, distance, movementModifier)
    \/ \E table \in MessageTables : RecentMessages(table)
    \/ CallReturn

SpecHelpers == InitHelpers /\ [][NextHelpers]_vars

-----------------------------------------------------------------------------
(* Reference geometry the claims are stated in *)

\* The box a feature occupies as stored: its anchor plus its stored
\* dimensions, an absent dimension having no extent.
StoredBox(f) ==
    [minX |-> f.x, maxX |-> f.x + f.width,
     minY |-> f.y, maxY |-> f.y + f.depth,
     minZ |-> f.z, maxZ |-> f.z + f.height]

\* Some point a + t (b - a), 0 <= t <= 1, lies in the box.  If any t does, the
\* least one does, and it is 0 or a quotient with denominator |b.x - a.x|,
\* |b.y - a.y| or |b.z - a.z|; so these t = k / den are enough.
SegmentMeetsBox(a, b, box) ==
    LET dx == b.x - a.x
        dy == b.y - a.y
        dz == b.z - a.z
        dens == {1, Abs(dx), Abs(dy), Abs(dz)} \ {0}
    IN  \E den \in dens : \E k \in 0..den :
            /\ box.minX * den <= a.x * den + k * dx
            /\ a.x * den + k * dx <= box.maxX * den
            /\ box.minY * den <= a.y * den + k * dy
            /\ a.y * den + k * dy <= box.maxY * den
            /\ box.minZ * den <= a.z * den + k * dz
            /\ a.z * den + k * dz <= box.maxZ * den

HasNoDimensions(f) == f.width = 0 /\ f.height = 0 /\ f.depth = 0

-----------------------------------------------------------------------------
(* Claims on validateMovement *)

\* C2: for an existing location, a target with a coordinate strictly outside
\* [min, max] of its axis is answered isValid = FALSE whatever `from` and the
\* stored features are; a target within the bounds (on a bound included) is
\* not answered with the out-of-bounds warning.
C2_OutOfBoundsRejected ==
    (geo.op = "validateMovement" /\ geo.loc \in LocationIds) =>
        LET l == Location(geo.loc)
            within == /\ geo.b.x \in l.minX..l.maxX
                      /\ geo.b.y \in l.minY..l.maxY
                      /\ geo.b.z \in l.minZ..l.maxZ
            rejected == geo.res.warnings = <<"Target position is outside location bounds">>
        IN  /\ ~within => (geo.res.isValid = FALSE /\ rejected)
            /\ within => ~rejected

\* The documented tavern query: from = to = (13.5, 15, 0), y above maxY = 12,
\* with the bar counter stored.
C2_Witness ==
    /\ geo.op = "validateMovement"
    /\ geo.loc = "tavern"
    /\ geo.a = Pos(Metres(13) + 1, Metres(15), 0)
    /\ geo.b = geo.a
    /\ \E f \in features : f.name = "Bar Counter"
    /\ geo.res.isValid = FALSE

-----------------------------------------------------------------------------
(* Claims on the segment queries *)

\* C8: checkLineOfSight(a, b, location) is true exactly when no stored feature
\* of the location with blocksVision has a box meeting the segment a-b.
C8_LineOfSightIffNoBlockingBox ==
    geo.op = "checkLineOfSight" =>
        (geo.res = (\A f \in features :
                        (f.locationId = geo.loc /\ f.blocksVision) =>
                            ~SegmentMeetsBox(geo.a, geo.b, StoredBox(f))))

\* C9: a feature stored without dimensions is hit by a segment query only
\* when the segment passes through its anchor, as validateMovement blocks
\* only a target equal to the anchor.
C9_DimensionlessFeatureIsPoint ==
    \A f \in features :
        (geo # Idle /\ HasNoDimensions(f) /\ f.locationId = geo.loc) =>
            LET throughAnchor == SegmentMeetsBox(geo.a, geo.b, StoredBox(f))
            IN  /\ (geo.op = "validateMovementPath" /\ f.blocksMovement
                        /\ f.name \in geo.res.blockedBy) => throughAnchor
                /\ (geo.op = "checkLineOfSight" /\ f.blocksVision
                        /\ features = {f} /\ geo.res = FALSE) => throughAnchor
                /\ (geo.op = "getCoverLevel" /\ features = {f}
                        /\ geo.res # "NONE") => throughAnchor

\* C10: getCoverLevel returns the highest level among the stored features of
\* the location with cover other than NONE whose box meets the segment, and
\* NONE when there is none.
C10_HighestCoverOnSegment ==
    geo.op = "getCoverLevel" =>
        LET onLine == { f \in features :
                          /\ f.locationId = geo.loc
                          /\ f.providesCover # "NONE"
                          /\ SegmentMeetsBox(geo.a, geo.b, StoredBox(f)) }
        IN  /\ onLine = {} => geo.res = "NONE"
            /\ onLine # {} =>
                  /\ geo.res \in { f.providesCover : f \in onLine }
                  /\ \A f \in onLine : CoverIndex(f.providesCover) <= CoverIndex(geo.res)

\* C11: getCoverLevel is monotonic in the feature set: whenever a feature is
\* added to the table, the cover level of every attacker/defender pair in
\* every location is at least the level it had before.
C11_CoverMonotonic ==
    [][(features \subseteq features' /\ features' # features) =>
          \A a \in StartPoints, b \in TargetPoints, loc \in LocationIds :
              <<bestCover(CoverFeatures(features, loc), a, b),
                bestCover(CoverFeatures(features', loc), a, b)>> \in CoverOrder]_vars

\* A FULL-cover feature and a lower one are both on the line of the pair
\* asked about, and the answer is FULL
C11_Witness ==
    /\ geo.op = "getCoverLevel"
    /\ geo.res = "FULL"
    /\ \E f, g \in features :
           /\ f.providesCover = "FULL"
           /\ g.providesCover \in {"HALF", "THREE_QUARTERS"}
           /\ f.locationId = geo.loc /\ g.locationId = geo.loc
           /\ lineIntersectsBox(geo.a, geo.b, f)
           /\ lineIntersectsBox(geo.a, geo.b, g)

-----------------------------------------------------------------------------
(* Claims on the movement route *)

\* C1: handleApply writes a character's position only in a request whose
\* validateMovement(position read, target, the session's location) answered
\* isValid = TRUE; a request whose validation fails answers 'Invalid movement'
\* and its step changes neither the stored positions nor recentEvents, and
\* recentEvents is written only by a request that passed validation.
C1_WriteOnlyAfterValidation ==
    [][ /\ \A c \in CharacterIds :
            positions'[c] # positions[c] =>
                \E r \in ReqIds :
                    /\ apply[r].pc = "updatePosition"
                    /\ apply[r].characterId = c
                    /\ apply[r].validation.isValid
                    /\ validateMovement(apply[r].currentPosition, apply[r].target,
                                        sessState.locationId).isValid
                    /\ PosOf(positions'[c]) = apply[r].target
        /\ sessState' # sessState =>
                \E r \in ReqIds :
                    /\ apply[r].pc = "updateEvents"
                    /\ apply[r].validation.isValid
        /\ \A r \in ReqIds :
            (apply[r].pc = "validate" /\ apply'[r].pc = "done") =>
                /\ ~validateMovement(apply[r].currentPosition, apply[r].target,
                                     sessState.locationId).isValid
                /\ apply'[r].response = "Invalid movement"
                /\ UNCHANGED <<sumVars, positions, sessState>>
        /\ \A r \in ReqIds :
            apply[r].response = "Invalid movement" => apply'[r] = apply[r]
      ]_vars

\* One request was refused for the pillar while another moved the hero
C1_Witness ==
    /\ apply["r1"].response = "Invalid movement"
    /\ apply["r1"].validation.blockedBy = {"Pillar", "Crate"}
    /\ apply["r2"].response = "Movement applied successfully"
    /\ PosOf(positions["hero"]) = Pos(2, 2, 1)

-----------------------------------------------------------------------------
(* Claims on the reply interpreter *)

\* C6: whatever the reply text is, generateEnhancedStoryResponse returns a
\* result; when the text is not parseable JSON the narrative is the whole raw
\* text and there is no movement suggestion.
C6_InterpreterNeverThrows ==
    interp # NoReply =>
        /\ ~interp.res.threw
        /\ interp.reply.json.kind = "invalid" =>
              /\ interp.res.content = Text(interp.reply.raw)
              /\ interp.res.movementSuggestion = NoSuggestion

\* C7: a movement suggestion is produced exactly when the parsed reply has
\* movement.detected = true and a targetPosition; it then has from = the
\* character position of the spatial context (the origin without one), to =
\* targetPosition, distance = distance3D(from, to) and isValid = TRUE.
C7_SuggestionIffDetected ==
    interp # NoReply =>
        LET j == interp.reply.json
            wanted == /\ j.kind = "object"
                      /\ j.movement.kind = "object"
                      /\ j.movement.detected = "true"
                      /\ j.movement.targetPosition.kind = "object"
            sug == interp.res.movementSuggestion
            from == IF interp.context.spatialContext = Undef THEN Origin
                    ELSE interp.context.spatialContext.characterPosition
        IN  /\ sug.present = wanted
            /\ wanted =>
                  /\ ~interp.res.threw
                  /\ sug.from = from
                  /\ JPosition(sug.to) = j.movement.targetPosition
                  /\ sug.distanceSq = (sug.to.x - from.x) * (sug.to.x - from.x)
                                      + (sug.to.y - from.y) * (sug.to.y - from.y)
                                      + (sug.to.z - from.z) * (sug.to.z - from.z)
                  /\ sug.isValid = TRUE

\* A detected movement interpreted for a character standing away from the origin
C7_Witness ==
    /\ interp # NoReply
    /\ interp.res.movementSuggestion.present
    /\ interp.res.movementSuggestion.from = Pos(2, 2, 0)
    /\ interp.res.movementSuggestion.to = Pos(1, 1, 0)
    /\ interp.res.movementSuggestion.distanceSq = 2

-----------------------------------------------------------------------------
(* Claims on generateResponse *)

\* C4: within one rate-limit window a session never gets more than
\* MAX_REQUESTS_PER_SESSION AI responses generated, also when several
\* generateResponse calls for the session run concurrently.
C4_AtMostMaxResponsesPerWindow == generated <= MAX_REQUESTS_PER_SESSION

\* C5: a movementSuggestion in the response generateResponse returns has
\* been through validateMovement(from, to, locationId) and carries isValid
\* equal to its result, false when the location does not resolve.
C5_ReturnedSuggestionIsValidated ==
    \A g \in DOMAIN gen :
        (/\ gen[g].pc = "done"
         /\ gen[g].error = ""
         /\ gen[g].aiResponse.movementSuggestion.present)
        => LET suggestion == gen[g].aiResponse.movementSuggestion
           IN  /\ suggestion.isValid =
                      validateMovement(suggestion.from, suggestion.to,
                                       suggestion.locationId).isValid
               /\ (suggestion.locationId \notin LocationIds => ~suggestion.isValid)

\* A response is returned whose suggestion the validation turned down, and
\* another whose suggestion it accepted
C5_Witness ==
    /\ \E g \in DOMAIN gen :
           /\ gen[g].pc = "done"
           /\ gen[g].error = ""
           /\ gen[g].aiResponse.movementSuggestion.present
           /\ ~gen[g].aiResponse.movementSuggestion.isValid
    /\ \E g \in DOMAIN gen :
           /\ gen[g].pc = "done"
           /\ gen[g].error = ""
           /\ gen[g].aiResponse.movementSuggestion.present
           /\ gen[g].aiResponse.movementSuggestion.isValid
           /\ gen[g].aiResponse.movementSuggestion.locationId = "cellar"

-----------------------------------------------------------------------------
(* Claims on the queries about the characters of a location *)

C13_VisibleIffLineOfSight ==
    geo.op = "getVisibleCharacters" =>
        /\ { v.characterId : v \in geo.res } =
               { c \in SceneCharacters :
                     /\ positions[c].exists
                     /\ positions[c].locationId = geo.loc
                     /\ c # geo.excluded
                     /\ checkLineOfSight(geo.a, PosOf(positions[c]), geo.loc) }
        /\ \A v \in geo.res :
              /\ v.position = PosOf(positions[v.characterId])
              /\ v.distanceSq = calculateDistanceSq(geo.a, v.position)
        /\ \A v, w \in geo.res : v.characterId = w.characterId => v = w

\* One character of the location is returned, another of the same location
\* is hidden by a vision blocker, and a third stands in another location
C13_Witness ==
    /\ geo.op = "getVisibleCharacters"
    /\ geo.res # {}
    /\ \E c \in SceneCharacters :
           /\ c # geo.excluded
           /\ positions[c].exists
           /\ positions[c].locationId = geo.loc
           /\ c \notin { v.characterId : v \in geo.res }
    /\ \E c \in SceneCharacters :
           /\ positions[c].exists
           /\ positions[c].locationId \notin {geo.loc, ""}

-----------------------------------------------------------------------------
(* Claims on the movement detector *)

\* The keyword groups in the order the claim gives, with their action types
PriorityGroups ==
    << [keywords |-> attackKeywords, actionType |-> "MELEE"],
       [keywords |-> talkKeywords, actionType |-> "CONVERSATION"],
       [keywords |-> investigateKeywords, actionType |-> "PERCEPTION"],
       [keywords |-> fleeKeywords, actionType |-> "MOVEMENT"],
       [keywords |-> approachKeywords, actionType |-> "MOVEMENT"],
       [keywords |-> generalKeywords, actionType |-> "MOVEMENT"] >>

\* The groups having a keyword that is a substring of the lower-cased text
GroupsMatching(text) ==
    { g \in 1..Len(PriorityGroups) :
          \E k \in 1..Len(PriorityGroups[g].keywords) :
              includes(toLowerCase(text), PriorityGroups[g].keywords[k]) }

\* C14: detectMovementIntent returns the action type of the first group, in
\* the order attack, talk, investigate, flee, approach, general, that has a
\* keyword occurring in the lower-cased input, and detected=false when no
\* group has one.
C14_FirstMatchingGroupWins ==
    call.op = "detectMovementIntent" =>
        LET matching == GroupsMatching(call.input)
        IN  /\ call.res.detected <=> matching # {}
            /\ matching # {} =>
                  LET first == CHOOSE g \in matching : \A h \in matching : g <= h
                  IN  /\ call.res.actionType = PriorityGroups[first].actionType
                      /\ call.res.keywords # <<>>
                      /\ \A k \in 1..Len(call.res.keywords) :
                            \E m \in 1..Len(PriorityGroups[first].keywords) :
                                call.res.keywords[k] = PriorityGroups[first].keywords[m]

\* An input with an attack keyword and a talk keyword has been answered MELEE
C14_Witness ==
    /\ call.op = "detectMovementIntent"
    /\ {1, 2} \subseteq GroupsMatching(call.input)
    /\ call.res.detected
    /\ call.res.actionType = "MELEE"

-----------------------------------------------------------------------------
(* Claims on the helpers of the context builder *)

\* The fixed category keywords occurring in the lower-cased text
CategoryHits(text) ==
    { c \in 1..Len(MECHANICS_KEYWORDS) :
          \E k \in 1..Len(MECHANICS_KEYWORDS[c].keywords) :
              includes(toLowerCase(text), MECHANICS_KEYWORDS[c].keywords[k]) }

\* The rule has a declared keyword occurring in the text, whatever the case
OwnKeywordHit(rule, text) ==
    \E k \in 1..Len(rule.keywords) :
        includes(toLowerCase(text), toLowerCase(rule.keywords[k]))

\* The rule belongs to a category with a keyword hit
CategoryHit(rule, text) ==
    \E c \in CategoryHits(text) : MECHANICS_KEYWORDS[c].category = rule.category

\* C15: findRelevantMechanics includes every rule whose own keywords match
\* the input, whatever its category and whether or not a fixed category
\* keyword matched, in addition to the rules of each category with a keyword
\* hit; at most 3 rules are included (all of them when at most 3 qualify).
C15_OwnKeywordRulesIncluded ==
    call.op = "findRelevantMechanics" =>
        LET qualifying == { i \in 1..Len(call.rules) :
                               \/ CategoryHit(call.rules[i], call.input)
                               \/ OwnKeywordHit(call.rules[i], call.input) }
            included == { call.res[j] : j \in 1..Len(call.res) }
        IN  /\ Len(call.res) <= 3
            /\ included \subseteq { FormatRule(call.rules[i]) : i \in qualifying }
            /\ Cardinality(qualifying) <= 3 =>
                  \A i \in qualifying : FormatRule(call.rules[i]) \in included
            /\ Cardinality(qualifying) > 3 => Len(call.res) = 3

\* C16: when the input contains no fixed category keyword and no keyword of
\* any rule of the campaign, findRelevantMechanics returns no rule and the
\* context's mechanicsRules is undefined.
C16_NoKeywordNoMechanics ==
    (/\ call.op = "findRelevantMechanics"
     /\ CategoryHits(call.input) = {}
     /\ \A i \in 1..Len(call.rules) : ~OwnKeywordHit(call.rules[i], call.input))
    => (call.res = <<>> /\ call.field = Undef)

\* A campaign with rules is asked about an input that has no keyword at all
C16_Witness ==
    /\ call.op = "findRelevantMechanics"
    /\ Len(call.rules) >= 4
    /\ CategoryHits(call.input) = {}
    /\ \A i \in 1..Len(call.rules) : ~OwnKeywordHit(call.rules[i], call.input)
    /\ call.field = Undef

(* C17: buildToneGuidelines gives no tone block when the campaign has no     *)
(* profile and otherwise the tone rules of one profile: the first, in        *)
(* descending priority, that has no conditions or whose declared location    *)
(* and NPC conditions are all satisfied by the current state, a declared     *)
(* condition being unsatisfied when the state lacks the location or the NPC  *)
(* list; the highest-priority profile only when no profile qualifies.        *)

\* The declared conditions of the profile are satisfied by the state
Qualifies(profile, currentState) ==
    \/ profile.conditions = NoConditions
    \/ /\ profile.conditions # NoConditions
       /\ profile.conditions.location # NoText =>
             /\ HasLocation(currentState)
             /\ toLowerCase(currentState.currentLocation)
                    = toLowerCase(profile.conditions.location)
       /\ profile.conditions.npcPresent # NoText =>
             /\ HasNPCs(currentState)
             /\ \E i \in 1..Len(currentState.activeNPCs.items) :
                    toLowerCase(currentState.activeNPCs.items[i])
                        = toLowerCase(profile.conditions.npcPresent)

DescendingPriority(toneProfiles) ==
    \A i, j \in 1..Len(toneProfiles) :
        i < j => toneProfiles[i].priority > toneProfiles[j].priority

ExpectedTone(toneProfiles, currentState) ==
    IF Len(toneProfiles) = 0 THEN Undef
    ELSE LET q == { i \in 1..Len(toneProfiles) : Qualifies(toneProfiles[i], currentState) }
         IN  IF q = {} THEN toneProfiles[1].toneRules
             ELSE toneProfiles[CHOOSE i \in q : \A j \in q : i <= j].toneRules

C17_FirstQualifyingToneProfile ==
    call.op = "buildToneGuidelines" =>
        /\ DescendingPriority(call.profiles)
        /\ call.res = ExpectedTone(call.profiles, call.state)

(* C18: findRelevantKnowledge scores an entry 10 when the input includes its *)
(* title, 5 for each of its keywords the input includes, 15 when it is a     *)
(* LOCATION entry whose title equals the current location and 12 for each    *)
(* active NPC named in the title of an NPC entry. It returns at most 5       *)
(* entries, each with a positive score, in non-increasing order of score,    *)
(* no omitted entry scoring higher than a returned one, and the same call    *)
(* made again returns the same list.                                         *)

\* The score the entry has by the rule above
KnowledgeScore(item, userInput, currentState) ==
    LET text == toLowerCase(userInput)
        title == toLowerCase(item.title)
        hits == { i \in 1..Len(item.keywords) : includes(text, toLowerCase(item.keywords[i])) }
        named == IF HasNPCs(currentState) /\ item.category = "NPC"
                 THEN { i \in 1..Len(currentState.activeNPCs.items) :
                          includes(title, toLowerCase(currentState.activeNPCs.items[i])) }
                 ELSE {}
        here == /\ HasLocation(currentState)
                /\ item.category = "LOCATION"
                /\ title = toLowerCase(currentState.currentLocation)
    IN  (IF includes(text, title) THEN 10 ELSE 0) + 5 * Cardinality(hits)
        + (IF here THEN 15 ELSE 0) + 12 * Cardinality(named)

\* The entry of the list the returned pair was made from
EntryOf(knowledge, pair) ==
    CHOOSE i \in 1..Len(knowledge) :
        knowledge[i].title = pair.title /\ knowledge[i].content = pair.content

C18_TopFiveByScore ==
    call.op = "findRelevantKnowledge" =>
        LET knowledge == call.knowledge
            res == call.res
            Score(i) == KnowledgeScore(knowledge[i], call.input, call.state)
            Returned(i) == \E k \in 1..Len(res) :
                              /\ res[k].title = knowledge[i].title
                              /\ res[k].content = knowledge[i].content
            at(k) == EntryOf(knowledge, res[k])
        IN  /\ Len(res) <= 5
            /\ \A k \in 1..Len(res) : Returned(at(k)) /\ Score(at(k)) > 0
            /\ \A k, l \in 1..Len(res) : k < l => at(k) # at(l) /\ Score(at(k)) >= Score(at(l))
            /\ \A i \in 1..Len(knowledge) :
                  ~Returned(i) =>
                      /\ \A k \in 1..Len(res) : Score(i) <= Score(at(k))
                      /\ Score(i) > 0 => Len(res) = 5
            /\ res = findRelevantKnowledge(knowledge, call.input, call.state)

\* More than five entries score and the entries left out include a scoring one
C18_Witness ==
    /\ call.op = "findRelevantKnowledge"
    /\ Len(call.res) = 5
    /\ Cardinality({ i \in 1..Len(call.knowledge) :
                        KnowledgeScore(call.knowledge[i], call.input, call.state) > 0 }) > 5
    /\ \E k \in 1..4 :
          KnowledgeScore(call.knowledge[EntryOf(call.knowledge, call.res[k])], call.input, call.state)
            > KnowledgeScore(call.knowledge[EntryOf(call.knowledge, call.res[k + 1])], call.input, call.state)
    /\ HasNPCs(call.state) /\ HasLocation(call.state)

(* C19: for an existing session buildContext returns a context whether or    *)
(* not the session has a state row, a stored summary or a position with a    *)
(* location for its character, and also when building the spatial context    *)
(* raises an error: the absent parts are undefined and the others are        *)
(* populated. Only a session id that does not resolve makes it fail, with    *)
(* 'Session not found'.                                                      *)

\* The character of the session has a position row with a location
HasPlacedCharacter(session) ==
    /\ FirstCharacter \in DOMAIN session.positionRows
    /\ session.positionRows[FirstCharacter].exists
    /\ session.positionRows[FirstCharacter].locationId # ""

C19_ContextDespiteMissingParts ==
    call.op = "buildContext" =>
        LET session == call.session
            res == call.res
        IN  IF ~session.exists
            THEN res.kind = "error" /\ res.message = "Session not found"
            ELSE /\ res.kind = "context"
                 /\ res.currentState = Undef <=> ~session.state.exists
                 /\ session.state.exists =>
                       res.currentState.currentLocation = session.state.currentLocation
                 /\ res.recentSummary = Undef <=> session.summaries = <<>>
                 /\ session.summaries # <<>> => res.recentSummary = session.summaries[1].summary
                 /\ res.spatialContext = Undef
                       <=> (call.spatialError \/ ~HasPlacedCharacter(session))
                 /\ res.spatialContext # Undef =>
                       res.spatialContext.characterPosition
                           = PosOf(session.positionRows[FirstCharacter])
                 /\ res.campaignName = session.campaign.name
                 /\ Len(res.recentMessages) = Len(session.messages)
                 /\ \A i \in 1..Len(session.messages) :
                       \E k \in 1..Len(res.recentMessages) :
                           res.recentMessages[k] = session.messages[i]
                 /\ res.relevantKnowledge
                       = findRelevantKnowledge(session.campaign.knowledge, call.input,
                                               res.currentState)
                 /\ res.toneGuidelines # Undef

\* A context without state, summary or spatial part, the spatial step
\* having raised an error for a placed character, and its other parts filled
C19_Witness ==
    /\ call.op = "buildContext"
    /\ call.session.exists
    /\ ~call.session.state.exists
    /\ call.session.summaries = <<>>
    /\ HasPlacedCharacter(call.session)
    /\ call.spatialError
    /\ call.res.kind = "context"
    /\ call.res.spatialContext = Undef
    /\ call.res.relevantKnowledge # <<>>
    /\ call.res.mechanicsRules # Undef

(* C20: the spatial context assembled for a character holds at most 5        *)
(* nearby features, the 5 nearest by distance, and at most 5 available       *)
(* actions, however many features and valid rule-target pairs the location   *)
(* has.                                                                      *)

\* The features of the character's location, at any distance
FeaturesAround(characterId) ==
    { f \in features : f.locationId = positions[characterId].locationId }

C20_AtMostFiveFeaturesAndActions ==
    (geo.op = "buildSpatialContext" /\ geo.res # Undef) =>
        LET res == geo.res
            listed == { res.nearbyFeatures[i].name : i \in 1..Len(res.nearbyFeatures) }
            from == res.characterPosition
            d(f) == calculateDistanceSq(from, Pos(f.x, f.y, f.z))
        IN  /\ Len(res.nearbyFeatures) <= 5
            /\ Len(res.availableActions) <= 5
            /\ \A f \in FeaturesAround(geo.characterId) :
                  f.name \notin listed =>
                      \A i \in 1..Len(res.nearbyFeatures) :
                          res.nearbyFeatures[i].distanceSq <= d(f)

-----------------------------------------------------------------------------
(* Claims about generateResponse under SpecSession and SpecGen *)

\* The steps of a call before context building and the model call
PreModel == {"idle", "resetWindow", "findSession"}

\* The call of frame g ends here with one of the two session errors and has
\* had no effect: no completion, no message, no change of the counters
EndsWith(g, message) ==
    /\ gen'[g].pc = "done"
    /\ gen'[g].error = message
    /\ gen'[g].aiResponse = NoResponse
    /\ messages' = messages
    /\ rateLimit' = rateLimit
    /\ generated' = generated

(* C21: generateResponse for a session id that does not resolve fails with   *)
(* 'Session not found', and for a session that is not ACTIVE with 'Session   *)
(* is not active'; the model is not called, no message is stored and the     *)
(* counters are not incremented.                                             *)
C21_UnknownOrInactiveFails ==
    [][\A g \in GenIds :
          (gen[g].pc \in PreModel /\ gen'[g].pc \notin PreModel) =>
              /\ gen'[g].sessionId # SessionId => EndsWith(g, "Session not found")
              /\ (gen'[g].sessionId = SessionId /\ sessionStatus # "ACTIVE")
                    => EndsWith(g, "Session is not active")]_vars

\* The message rows generateResponse creates
UserMessage(frame) ==
    [role |-> "USER", content |-> Text(frame.userInput), tokenCount |-> 0]

AssistantMessage(frame) ==
    [role |-> "ASSISTANT", content |-> frame.aiResponse.content,
     tokenCount |-> frame.aiResponse.tokenCount]

(* C22: a successful generateResponse stores exactly two messages, the USER  *)
(* message with the input and then the ASSISTANT message with the narrative, *)
(* and after them adds 1 to requestCount and the response's token count to   *)
(* tokenCount. Messages and counters are written only after the model call   *)
(* has succeeded: a failed model call leaves them as they were.              *)
C22_MessagesThenCounters ==
    [][\A g \in GenIds :
          gen'[g] # gen[g] =>
              LET frame == gen[g]
                  row == rateLimit[frame.sessionId]
              IN  /\ gen'[g].pc = "saveUser" =>
                         /\ frame.pc \in {"callModel", "validate"}
                         /\ gen'[g].error = ""
                         /\ gen'[g].aiResponse.content # Undef
                  /\ gen'[g].pc = "saveAssistant" => frame.pc = "saveUser"
                  /\ gen'[g].pc = "increment" => frame.pc = "saveAssistant"
                  /\ gen'[g].pc = "readState" => frame.pc = "increment"
                  /\ frame.pc = "saveUser" =>
                         /\ gen'[g].pc = "saveAssistant"
                         /\ messages' = Append(messages, UserMessage(frame))
                         /\ rateLimit' = rateLimit
                  /\ frame.pc = "saveAssistant" =>
                         /\ gen'[g].pc = "increment"
                         /\ messages' = Append(messages, AssistantMessage(frame))
                         /\ rateLimit' = rateLimit
                  /\ frame.pc = "increment" =>
                         /\ gen'[g].pc = "readState"
                         /\ messages' = messages
                         /\ rateLimit' = [rateLimit EXCEPT ![frame.sessionId] =
                               RateRow(row.requestCount + 1,
                                       row.tokenCount + frame.aiResponse.tokenCount,
                                       row.windowStart)]
                  /\ frame.pc \notin {"saveUser", "saveAssistant"} => messages' = messages
                  /\ frame.pc \notin {"idle", "resetWindow", "increment"} => rateLimit' = rateLimit
                  /\ (frame.pc = "callModel" /\ gen'[g].error # "") =>
                         /\ gen'[g].pc = "done"
                         /\ gen'[g].aiResponse = NoResponse]_vars

\* One call has stored its two messages and updated the counters while
\* another call's model call has failed
C22_Witness ==
    \E g, h \in GenIds :
        /\ gen[g].pc = "readState"
        /\ Len(messages) = 2
        /\ messages[1].role = "USER" /\ messages[2].role = "ASSISTANT"
        /\ rateLimit[SessionId].requestCount = 1
        /\ rateLimit[SessionId].tokenCount = gen[g].aiResponse.tokenCount
        /\ gen[h].pc = "done" /\ gen[h].error = "Failed to generate AI response"

-----------------------------------------------------------------------------
(* Claims about concurrent apply requests under SpecMove *)

Applied(r) ==
    apply[r].pc = "done" /\ apply[r].response = "Movement applied successfully"

\* Request r takes a step
Steps(r) == apply'[r] # apply[r]

(* C23: when two apply requests for the same character run concurrently and  *)
(* both targets pass validation, neither is rejected or held back because of *)
(* the other, and the stored position is the target of the request whose     *)
(* position update ran last, never a mix of the coordinates of both.         *)
C23_LastWriteWins ==
    /\ [](\A r \in ReqIds :
            /\ apply[r].pc = "updatePosition" => ENABLED ApplyUpdatePosition(r)
            /\ apply[r].pc = "updateEvents" => ENABLED ApplyUpdateEvents(r))
    /\ [](\A r, q \in ReqIds :
            (r # q /\ Applied(r) /\ Applied(q) /\ apply[r].characterId = apply[q].characterId)
                => PosOf(positions[apply[r].characterId]) \in {apply[r].target, apply[q].target})
    /\ [][\A r \in ReqIds :
            Steps(r) =>
                /\ (apply[r].pc = "validate" /\ apply[r].pc' = "done") =>
                       ~validateMovement(apply[r].currentPosition, apply[r].target,
                                         apply[r].stateLocationId).isValid
                /\ apply[r].pc = "updatePosition" =>
                       /\ PosOf(positions'[apply[r].characterId]) = apply[r].target
                       /\ apply'[r].pc = "updateEvents"
                /\ apply[r].pc = "updateEvents" => Applied(r)'
                /\ apply[r].pc # "updatePosition" => positions' = positions]_vars

\* Both requests moved the hero, to different targets, and the position is
\* the target of the second while the first request's update came first
C23_Witness ==
    /\ Applied("r1") /\ Applied("r2")
    /\ apply["r1"].characterId = "hero" /\ apply["r2"].characterId = "hero"
    /\ apply["r1"].target # apply["r2"].target
    /\ apply["r2"].currentPosition = apply["r1"].target
    /\ PosOf(positions["hero"]) = apply["r2"].target

-----------------------------------------------------------------------------
(* Claims about suggestMovement and calculateTurnMovement under SpecHelpers *)

\* Equality of rationals
SameNumber(a, b) == a[1] * b[2] = b[1] * a[2]

\* The returned position is the current one
ReturnsCurrent(c) ==
    /\ SameNumber(c.res.x, Quot(c.current.x, 1))
    /\ SameNumber(c.res.y, Quot(c.current.y, 1))
    /\ c.res.z = c.current.z

\* The returned position lies on the horizontal segment from current to
\* target, at horizontal distance exactly d from the target, at current's z
StopsAtSeparation(c) ==
    LET dx == c.target.x - c.current.x
        dy == c.target.y - c.current.y
        len == c.res.x[2]
        \* res - current and target - res, both times len
        mx == c.res.x[1] - c.current.x * len
        my == c.res.y[1] - c.current.y * len
        rx == c.target.x * len - c.res.x[1]
        ry == c.target.y * len - c.res.y[1]
    IN  /\ c.res.x[2] = c.res.y[2]
        /\ c.res.z = c.current.z
        /\ mx * dy = my * dx
        /\ mx * dx + my * dy >= 0
        /\ mx * dx + my * dy <= len * (dx * dx + dy * dy)
        /\ rx * rx + ry * ry = c.d * c.d * len * len

CoincideHorizontally(c) == c.current.x = c.target.x /\ c.current.y = c.target.y

(* C24: suggestMovement(current, target, d) returns current whenever          *)
(* distance3D(current, target) <= d or current and target coincide            *)
(* horizontally; otherwise the point on the horizontal line from current      *)
(* toward target whose horizontal distance to target is exactly d, with z     *)
(* equal to current.z.                                                        *)
C24_StaysWithin3DOrStopsAtSeparation ==
    call.op = "suggestMovement" =>
        IF \/ calculateDistanceSq(call.current, call.target) <= call.d * call.d
           \/ CoincideHorizontally(call)
        THEN ReturnsCurrent(call)
        ELSE StopsAtSeparation(call)

(* C24, amended: suggestMovement(current, target, d) returns current          *)
(* whenever the horizontal distance from current to target is at most d,      *)
(* which is so when distance3D(current, target) <= d or the two coincide      *)
(* horizontally; otherwise the point on the horizontal line from current      *)
(* toward target whose horizontal distance to target is exactly d, with z     *)
(* equal to current.z.                                                        *)
C24_StaysWithinHorizontalOrStopsAtSeparation ==
    call.op = "suggestMovement" =>
        LET dx == call.target.x - call.current.x
            dy == call.target.y - call.current.y
        IN  /\ (\/ calculateDistanceSq(call.current, call.target) <= call.d * call.d
                \/ CoincideHorizontally(call))
                  => dx * dx + dy * dy <= call.d * call.d
            /\ IF dx * dx + dy * dy <= call.d * call.d
               THEN ReturnsCurrent(call)
               ELSE StopsAtSeparation(call)

\* The mover walks part of the way along a slanted line and stops short
C24_Witness ==
    /\ call.op = "suggestMovement"
    /\ call.current = Pos(1, 2, 1) /\ call.target = Pos(-5, 10, 1) /\ call.d = 5
    /\ ~ReturnsCurrent(call)
    /\ SameNumber(call.res.x, Quot(-2, 1)) /\ SameNumber(call.res.y, Quot(6, 1))

\* The rate the claim names: the character's own rate, or 9 metres when the
\* character has none (no row, null, or the 0 that the code reads as unset)
ExpectedRate(character) ==
    IF character # Undef /\ character.baseMovementRate \notin { Null, Num(0) }
    THEN character.baseMovementRate[1]
    ELSE Metres(9)

\* t is the least whole number of turns with t * rate * modifier >= distance
LeastTurns(t, distance, rate, m) ==
    /\ t \in Nat
    /\ t * rate * m[1] >= distance * m[2]
    /\ t > 0 => (t - 1) * rate * m[1] < distance * m[2]

(* C25: calculateTurnMovement returns turnsRequired = ceil(distance /         *)
(* (baseRate * modifier)) and canReachInOneTurn = (distance <= baseRate *     *)
(* modifier), with baseRate the character's movement rate or the default 9    *)
(* when unset; hence for every distance >= 0 and positive rate,               *)
(* canReachInOneTurn holds exactly when turnsRequired <= 1.                   *)
C25_TurnsAreCeilAndReachIffOneTurn ==
    call.op = "calculateTurnMovement" =>
        LET rate == ExpectedRate(call.character)
            m == call.res.movementModifier
        IN  /\ call.res.baseMovementRate = rate
            /\ LeastTurns(call.res.turnsRequired, call.distance, rate, m)
            /\ call.res.canReachInOneTurn = (call.distance * m[2] <= rate * m[1])
            /\ call.res.canReachInOneTurn = (call.res.turnsRequired <= 1)

\* A character with no rate of its own needs three turns at half speed for
\* 9.5 metres, and cannot reach it in one
C25_Witness ==
    /\ call.op = "calculateTurnMovement"
    /\ call.character = [baseMovementRate |-> Null]
    /\ call.distance = 19
    /\ call.res.movementModifier = Quot(1, 2)
    /\ call.res.baseMovementRate = Metres(9)
    /\ call.res.turnsRequired = 3
    /\ ~call.res.canReachInOneTurn

-----------------------------------------------------------------------------
(* Claim about the recent messages of the context, under SpecHelpers         *)

\* Creation indexes of the rows whose role is not SYSTEM
NonSystem(table) == { i \in 1..Len(table) : table[i].role # "SYSTEM" }

\* The (at most 5) largest members of a set of indexes
Latest5(S) == { i \in S : Cardinality({ j \in S : j > i }) < 5 }

(* C26: after any sequence of stored messages, the recentMessages of the     *)
(* context built for a session are exactly the 5 most recently created       *)
(* messages whose role is not SYSTEM (all of them when fewer than 5 exist),   *)
(* listed oldest first, each with its role.                                   *)
C26_RecentMessagesAreLast5NonSystem ==
    call.op = "recentMessages" =>
        LET want == Latest5(NonSystem(call.table))
            res == call.res
        IN  /\ Len(res) = Cardinality(want)
            /\ { res[k].content : k \in 1..Len(res) } = want
            /\ \A k \in 1..Len(res) : res[k].role = call.table[res[k].content].role
            /\ \A k \in 1..Len(res) - 1 : res[k].content < res[k + 1].content

\* Seven stored messages, two of them SYSTEM among the newest six: the
\* context lists the five newest others, oldest first
C26_Witness ==
    /\ call.op = "recentMessages"
    /\ Len(call.table) = 7
    /\ NonSystem(call.table) = {1, 2, 3, 4, 6, 7}
    /\ Len(call.res) = 5
    /\ call.res[1] = [role |-> "ASSISTANT", content |-> 2]
    /\ call.res[5] = [role |-> "USER", content |-> 7]

-----------------------------------------------------------------------------
(* Claims about the movement route and the recent events                     *)

\* Request r has written the position of character c
MovedBy(r, c) ==
    /\ apply[r].characterId = c
    /\ apply[r].pc \in {"updateEvents", "done"}
    /\ apply[r].pc = "done" => apply[r].response = "Movement applied successfully"

\* The row lies within the bounds of its own location and outside every
\* movement-blocking feature stored for that location
FitsOwnLocation(row) ==
    /\ row.locationId \in LocationIds
    /\ ~OutsideBounds(PosOf(row), Location(row.locationId))
    /\ \A f \in FeaturesOf(row.locationId) :
          f.blocksMovement => ~positionIntersectsFeature(PosOf(row), f)

(* C27: after a successful apply, the character's stored position lies       *)
(* within the bounds of, and outside every movement-blocking feature of,     *)
(* the location that the character's own position row refers to, for every   *)
(* combination of session and character, including a session whose active    *)
(* location differs from the character's location.                            *)
C27_AppliedPositionFitsOwnLocation ==
    \A c \in CharacterIds :
        (\E r \in ReqIds : MovedBy(r, c)) => FitsOwnLocation(positions[c])

\* Request r writes the events it built, and frame g upserts the state
ApplyWrites(r) == apply[r].pc = "updateEvents" /\ apply'[r].pc = "done"

UpsertWrites(g) == gen[g].pc = "upsertState" /\ gen'[g].pc = "done"

\* Writing new over old keeps every movement event that is not pushed past
\* the fifth place, one place further down
MovementsKept(old, new) ==
    \A i \in 1..Len(old) :
        (i < 5 /\ old[i].type = "movement") => (Len(new) > i /\ new[i + 1] = old[i])

(* C28: every successful movement apply is recorded as one movement event    *)
(* at the head of the session's recentEvents, and no applied movement's      *)
(* event is lost or overwritten when two applies, or an apply and             *)
(* updateStateFromResponse, for the same session interleave.                  *)
C28_NoMovementEventLost ==
    [][ /\ \A r \in ReqIds :
              ApplyWrites(r) =>
                  /\ sessState'.recentEvents # <<>>
                  /\ Head(sessState'.recentEvents) =
                         MovementEvent(apply[r].characterId, apply[r].currentPosition,
                                       apply[r].target)
                  /\ MovementsKept(sessState.recentEvents, sessState'.recentEvents)
        /\ \A g \in GenIds :
              UpsertWrites(g) =>
                  MovementsKept(sessState.recentEvents, sessState'.recentEvents)
      ]_vars

\* The list a write of newEvent gives when nothing is lost
Pushed(newEvent, old, new) ==
    /\ Len(new) = (IF Len(old) + 1 < 5 THEN Len(old) + 1 ELSE 5)
    /\ new[1] = newEvent
    /\ \A i \in 2..Len(new) : new[i] = old[i - 1]

\* text is userInput cut to at most 100 characters
CutTo100(text, userInput) ==
    /\ Len(text) <= 100
    /\ Len(text) = Len(userInput) \/ Len(text) = 100
    /\ \A i \in 1..Len(text) : text[i] = userInput[i]

(* C30: after any sequence of updateStateFromResponse and movement apply     *)
(* operations on a session, recentEvents holds at most 5 entries, the most    *)
(* recent event first and older events in their previous relative order; the  *)
(* entry added by updateStateFromResponse is the user input truncated to at   *)
(* most 100 characters.  An operation of the sequence is one whose read of    *)
(* the list is still the stored list when it writes.                          *)
C30_RecentEventsCappedAndOrdered ==
    /\ [](sessState.exists => Len(sessState.recentEvents) <= 5)
    /\ [][ /\ \A r \in ReqIds :
                 (ApplyWrites(r) /\ apply[r].existingEvents = sessState.recentEvents) =>
                     Pushed(MovementEvent(apply[r].characterId, apply[r].currentPosition,
                                          apply[r].target),
                            sessState.recentEvents, sessState'.recentEvents)
           /\ \A g \in GenIds :
                 UpsertWrites(g) =>
                     /\ sessState'.recentEvents # <<>>
                     /\ Head(sessState'.recentEvents).type = "input"
                     /\ CutTo100(Head(sessState'.recentEvents).text, gen[g].userInput)
                     /\ gen[g].existingEvents = sessState.recentEvents =>
                            Pushed(Head(sessState'.recentEvents),
                                   sessState.recentEvents, sessState'.recentEvents)
         ]_vars

\* Five entries are stored: the newest is a long input cut to 100 characters,
\* a movement event lies below it and the oldest of the earlier entries has
\* dropped off the end
C30_Witness ==
    /\ sessState.exists
    /\ Len(sessState.recentEvents) = 5
    /\ sessState.recentEvents[1] = InputEvent(SubSeq(LongInput, 1, 100))
    /\ sessState.recentEvents[2].type = "movement"
    /\ sessState.recentEvents[5] = InputEvent(<<"e", "3">>)
    /\ \A g \in GenIds : gen[g].pc \in {"idle", "done"}

-----------------------------------------------------------------------------
(* Claim about the stored summaries, under SpecSummary                       *)

\* Message numbers covered by a summary
RangeOf(row) == row.messageRangeStart..row.messageRangeEnd

\* Greatest messageRangeEnd among the first k summaries, 0 when k = 0
GreatestEnd(k) ==
    IF k = 0 THEN 0
    ELSE CHOOSE e \in { summaryRows[i].messageRangeEnd : i \in 1..k } :
             \A i \in 1..k : summaryRows[i].messageRangeEnd <= e

(* C29: for each session the message ranges [messageRangeStart,               *)
(* messageRangeEnd] of the stored summaries are pairwise disjoint, and each    *)
(* new summary starts at the previous greatest messageRangeEnd + 1, for every  *)
(* interleaving of generateResponse calls and the background                   *)
(* autoSummarizeIfNeeded runs they start; no message is summarized twice.      *)
C29_SummaryRangesDisjoint ==
    /\ \A i, j \in 1..Len(summaryRows) :
          i # j => RangeOf(summaryRows[i]) \cap RangeOf(summaryRows[j]) = {}
    /\ \A k \in 1..Len(summaryRows) :
          summaryRows[k].messageRangeStart = GreatestEnd(k - 1) + 1

====
